---- MODULE Spec2Model ----
(***************************************************************************)
(* Model of secfetch: the index-driven quarter download                    *)
(* (FilingDownloader.download_quarter / _download_one), its on-disk staging *)
(* and commit protocol, the manifest, and the retrying HTTP request        *)
(* routine (SecClient._request).                                           *)
(***************************************************************************)
EXTENDS Integers, Sequences, FiniteSets, TLC

(***************************************************************************)
(* Bounds of the model.                                                    *)
(***************************************************************************)
\* number of filtered rows (filings) scheduled by one quarter run
NTasks == 2
\* number of quarter runs performed one after the other on the same data dir
MaxRuns == 3
\* largest `concurrency` argument tried
MaxConcurrency == 2
\* number of coroutines that call RateLimiter.wait concurrently
NCallers == 2
\* last tick of the clock
MaxClock == 6
\* number of GETs started that the model follows
MaxStarts == 4
\* largest interval (1 / max_per_second) of the rate limiter, in ticks
MaxInterval == 2
\* largest number of lines of a master.idx text given to the parser
MaxLines == 4

\* largest number of data lines of a master index
MaxRows == 3
\* members of a tar that is extracted
MaxMembers == 2

(***************************************************************************)
(* Program constants.                                                      *)
(***************************************************************************)
\* SecClientConfig.max_retries
max_retries == 6
\* width of an entity ID: r.cik.zfill(10)
cik_width == 10

Acc == 1 .. NTasks

Min(a, b) == IF a <= b THEN a ELSE b
Max(a, b) == IF a >= b THEN a ELSE b
Range(s) == {s[i] : i \in 1 .. Len(s)}

RECURSIVE Pow2(_)
Pow2(n) == IF n = 0 THEN 1 ELSE 2 * Pow2(n - 1)

(***************************************************************************)
(* File names are sequences of characters, so that the extension test is   *)
(* computed as the code computes it (lower-case, then endswith).           *)
(***************************************************************************)
NameA     == <<"a", ".", "x", "m", "l">>
NameB     == <<"B", ".", "X", "M", "L">>
NameR     == <<"r", ".", "t", "x", "t">>
NameStale == <<"o", ".", "x", "m", "l">>
NameMeta  == <<"m", ".", "j", "s", "o", "n">>

\* str.lower() on the characters the model uses
LowerChar(c) ==
    CASE c = "B" -> "b"
      [] c = "X" -> "x"
      [] c = "M" -> "m"
      [] c = "L" -> "l"
      [] OTHER -> c

Lower(s) == [i \in 1 .. Len(s) |-> LowerChar(s[i])]

\* str.strip()
RECURSIVE Strip(_)
Strip(s) ==
    IF s = <<>> THEN s
    ELSE IF Head(s) = " " THEN Strip(Tail(s))
    ELSE IF s[Len(s)] = " " THEN Strip(SubSeq(s, 1, Len(s) - 1))
    ELSE s

EndsWith(s, suf) ==
    /\ Len(suf) <= Len(s)
    /\ SubSeq(s, Len(s) - Len(suf) + 1, Len(s)) = suf

\* the configured, already normalised extension allow-list ([".xml"])
file_types == {<<".", "x", "m", "l">>}

\* _match_file_types(name, file_types)
MatchFileTypes(name, types) == \E ext \in types : EndsWith(Lower(name), ext)

(***************************************************************************)
(* Folder listings (index.json payloads) the server may answer with.       *)
(* A payload is a JSON value: shape says how far it is well formed, items  *)
(* is directory.item.  An item is a dict with a name, a dict whose name is *)
(* empty or no string, or a non-dict.                                      *)
(***************************************************************************)
ItemFile(n) == [kind |-> "dict", name |-> n]
ItemNoName  == [kind |-> "dict", name |-> <<>>]
ItemNotDict == [kind |-> "other", name |-> <<>>]

Payload(shape, items) == [shape |-> shape, items |-> items]

Listings ==
    { Payload("ok", <<ItemFile(NameA), ItemFile(NameR), ItemFile(NameB)>>),
      Payload("ok", <<ItemFile(NameR)>>),
      Payload("ok", <<>>),
      Payload("ok", <<ItemNotDict, ItemFile(NameA), ItemNoName, ItemFile(NameB)>>),
      Payload("not_object", <<>>),
      Payload("no_directory", <<>>),
      Payload("no_item_array", <<>>) }

\* _extract_files_from_index_json: the names kept, in listing order, or the
\* DownloadError it raises
RECURSIVE KeptNames(_)
KeptNames(items) ==
    IF items = <<>> THEN <<>>
    ELSE LET it == Head(items)
             rest == KeptNames(Tail(items))
         IN  IF it.kind = "dict" /\ it.name # <<>> THEN <<it.name>> \o rest ELSE rest

ExtractFiles(payload) ==
    CASE payload.shape = "not_object"    -> [ok |-> FALSE, err |-> "DownloadError: payload was not an object", names |-> <<>>]
      [] payload.shape = "no_directory"  -> [ok |-> FALSE, err |-> "DownloadError: missing directory", names |-> <<>>]
      [] payload.shape = "no_item_array" -> [ok |-> FALSE, err |-> "DownloadError: missing directory.item", names |-> <<>>]
      [] OTHER -> [ok |-> TRUE, err |-> "", names |-> KeptNames(payload.items)]

\* variant: every listed file is selected
SelectFilesAll(names) == names

\* selected = [f for f in files if _match_file_types(f["name"], self.file_types)]
RECURSIVE SelectFiles(_)
SelectFiles(names) ==
    IF names = <<>> THEN <<>>
    ELSE IF MatchFileTypes(Head(names), file_types)
         THEN <<Head(names)>> \o SelectFiles(Tail(names))
         ELSE SelectFiles(Tail(names))

(***************************************************************************)
(* SecClient._request: one attempt of the retry loop.                      *)
(* A response is what one GET produced: an HTTP response with its status   *)
(* and Retry-After header, or a timeout / transport error raised by httpx. *)
(* Sleeps are in milliseconds; rand is random.random() in milliseconds.    *)
(***************************************************************************)
HttpResp(status, hdr, secs) == [kind |-> "http", status |-> status, hdr |-> hdr, secs |-> secs]
Ok200      == HttpResp(200, "none", 0)
NotFound   == HttpResp(404, "none", 0)
Forbidden  == HttpResp(403, "none", 0)
Unavail    == HttpResp(503, "none", 0)
TooMany    == HttpResp(429, "none", 0)
TooManyRA1 == HttpResp(429, "digits", 1)
TooManyBad == HttpResp(429, "junk", 0)
TimedOut   == [kind |-> "timeout", status |-> 0, hdr |-> "none", secs |-> 0]
NetError   == [kind |-> "network", status |-> 0, hdr |-> "none", secs |-> 0]

Responses == {Ok200, NotFound, Forbidden, Unavail, TooMany, TooManyRA1, TooManyBad, TimedOut, NetError}
RandMs == {0, 500, 999}

\* the except clause of _request: record the exception, sleep, continue
ExceptBranch(attempt, exc, rand) ==
    [next |-> "continue", exc |-> exc, sleep_ms |-> Min(10000, attempt * 500 + rand)]

\* resp.raise_for_status() followed by return resp, inside the try
RaiseForStatus(attempt, resp, rand) ==
    IF resp.status >= 400
    THEN ExceptBranch(attempt, "HTTPStatusError: client error", rand)
    ELSE [next |-> "return", exc |-> "none", sleep_ms |-> 0]

\* variant: no branch for 5xx, and the response is returned as it is
AttemptStepReturns5xx(attempt, resp, rand) ==
    IF resp.kind = "timeout" THEN ExceptBranch(attempt, "TimeoutException", rand)
    ELSE IF resp.kind = "network" THEN ExceptBranch(attempt, "NetworkError", rand)
    ELSE IF resp.status = 429
         THEN [next |-> "continue", exc |-> "RateLimitedError",
               sleep_ms |-> IF resp.hdr = "digits" THEN 1000 * resp.secs
                            ELSE Min(60000, Pow2(attempt) * 1000 + rand)]
    ELSE IF resp.status >= 500 /\ resp.status < 600
         THEN [next |-> "return", exc |-> "none", sleep_ms |-> 0]
    ELSE RaiseForStatus(attempt, resp, rand)

\* body of the for loop of _request for one response
AttemptStep(attempt, resp, rand) ==
    IF resp.kind = "timeout" THEN ExceptBranch(attempt, "TimeoutException", rand)
    ELSE IF resp.kind = "network" THEN ExceptBranch(attempt, "NetworkError", rand)
    ELSE IF resp.status = 429
         THEN [next |-> "continue", exc |-> "RateLimitedError",
               sleep_ms |-> IF resp.hdr = "digits" THEN 1000 * resp.secs
                            ELSE Min(60000, Pow2(attempt) * 1000 + rand)]
    ELSE IF resp.status >= 500 /\ resp.status < 600
         THEN [next |-> "continue", exc |-> "HTTPStatusError: server error",
               sleep_ms |-> Min(30000, Pow2(attempt) * 500 + rand)]
    ELSE RaiseForStatus(attempt, resp, rand)

\* the whole loop run against a script of responses (one per attempt):
\* how it ends, the exception raised, the GETs issued and the sleeps taken
RECURSIVE RequestFrom(_, _, _, _, _)
RequestFrom(attempt, last_exc, script, gets, sleeps) ==
    IF attempt > max_retries \/ attempt > Len(script)
    THEN [kind |-> "raise", exc |-> last_exc, gets |-> gets, sleeps |-> sleeps]
    ELSE LET st == AttemptStep(attempt, script[attempt], 0)
         IN  IF st.next = "return"
             THEN [kind |-> "return", exc |-> "none", gets |-> gets + 1, sleeps |-> sleeps]
             ELSE RequestFrom(attempt + 1, st.exc, script, gets + 1, sleeps + 1)

Request(script) == RequestFrom(1, "none", script, 0, 0)

Repeat(r, n) == [i \in 1 .. n |-> r]

\* the server behaviours a task's HTTP call is run against: immediate success,
\* one or five transient failures then success, and failure of every attempt
HttpScripts ==
    {<<Ok200>>}
    \cup {<<r, Ok200>> : r \in {TooManyRA1, Unavail, TimedOut, NotFound}}
    \cup {Repeat(r, max_retries - 1) \o <<Ok200>> : r \in {TooMany, NetError}}
    \cup {Repeat(r, max_retries) : r \in {Unavail, NotFound}}

(***************************************************************************)
(* State of the quarter download.                                          *)
(***************************************************************************)
VARIABLES
    phase,          \* where the current run is: init, index, gather, saved,
                    \* unwinding, returned, raised, cancelled, killed
    run,            \* number of runs begun so far
    output_format,  \* FilingDownloader.output_format of the current run
    concurrency,    \* FilingDownloader.concurrency
    cache,          \* index/master/{year}/QTR{q}: absent, dir (empty), file
    manifest_disk,  \* _state/manifest.json: accession -> strategy or "none"
    manifest,       \* FilingDownloader._manifest (in memory)
    out_dir,        \* D       per accession
    tmp_dir,        \* D.tmp   per accession
    tar_path,       \* T       per accession
    tmp_tar,        \* T.tmp   per accession
    pc,             \* per task: new, listing, download, done, cancelled (at an
                    \* await of _download_one), cancelled_new (before it ran)
    entry,          \* per task: local `entry` of _download_one
    selected,       \* per task: local `selected` of _download_one
    idx,            \* per task: position of the download loop in `selected`
    result,         \* per task: the DownloadResult it returned
    sem,            \* free permits of the semaphore
    in_progress,    \* download_quarter.in_progress
    completed,      \* download_quarter.completed
    saves,          \* save_atomic calls made by the current run
    last,           \* summary of the previous run (see LastOf)
    out_sel,        \* per accession: `selected` of the commit that produced D
    tar_sel,        \* per accession: `selected` of the commit that produced T
    on_progress,    \* arguments of the latest call of the progress observer
    req,            \* one call of SecClient._request, attempt by attempt
    clock,          \* time.monotonic(), in ticks
    limiter,        \* the RateLimiter: _interval, _next_time, holder of _lock
    waiters,        \* per caller of RateLimiter.wait: where it is, wake-up time
    starts,         \* times at which GETs were started, in order
    index_rows,     \* rows parsed from the quarterly master index
    flt,            \* forms, include_amended and cik_set of the downloader
    matched,        \* download_quarter.matched
    task_result,    \* per matched row: the result its task returned
    done_order,     \* positions of the matched rows in the order their tasks ended
    result_list,    \* the list download_quarter returns
    ix_pc,          \* index pipeline: start, gather, returned
    filing,         \* one call of _download_one, statement by statement
    api,            \* one call of a public entry point of api.py
    extract,        \* one call of _safe_extract_tar_to_accession
    parse           \* one call of parse_master_index, line by line

vars == <<phase, run, output_format, concurrency, cache, manifest_disk, manifest,
          out_dir, tmp_dir, tar_path, tmp_tar, pc, entry, selected, idx, result,
          sem, in_progress, completed, saves, last, out_sel, tar_sel,
          on_progress, req, clock, limiter, waiters, starts,
          index_rows, flt, matched, task_result, done_order, result_list, ix_pc,
          filing, api, extract, parse>>

unitVars == <<filing, api, extract, parse>>
rateVars == <<clock, limiter, waiters, starts>>
indexVars == <<index_rows, flt, matched, task_result, done_order, result_list, ix_pc>>

diskVars == <<out_dir, tmp_dir, tar_path, tmp_tar, out_sel, tar_sel>>
taskVars == <<pc, entry, selected, idx, result>>
progressVars == <<sem, in_progress, completed, on_progress>>
runVars == <<phase, run, output_format, concurrency, saves, last, req, rateVars, indexVars,
             unitVars>>

\* a directory is absent or holds a set of file names
NoDir == [exists |-> FALSE, files |-> {}]
Dir(files) == [exists |-> TRUE, files |-> files]
\* a tar file is absent or holds its members in order and metadata.json's `files`
NoTar == [exists |-> FALSE, members |-> <<>>, meta_files |-> <<>>]
Tar(members, meta_files) == [exists |-> TRUE, members |-> members, meta_files |-> meta_files]

StaleDir == Dir({NameStale})
StaleTar == Tar(<<NameStale>>, <<>>)

NoResult == [status |-> "none", error |-> "", output_dir |-> "none"]
MkResult(status, error, output) == [status |-> status, error |-> error, output_dir |-> output]

Modes == {"files", "tar"}

\* variant: the strategy does not follow the output mode
StrategyAlwaysIndex(mode) == "index"

\* strategy recorded by a commit made in the given output mode
StrategyOf(mode) == IF mode = "files" THEN "index" ELSE "index_tar"

\* self.concurrency = max(1, int(concurrency))
ClampConcurrency(c) == Max(1, c)

(***************************************************************************)
(* Manifest (storage/manifest.py): a map accession -> entry, of which the  *)
(* model keeps the strategy; "none" stands for no entry.                   *)
(***************************************************************************)
ManifestGet(m, a) == m[a]
ManifestUpsert(m, a, strategy) == [m EXCEPT ![a] = strategy]
ManifestLoad(disk) == disk
ManifestSaveAtomic(m) == m

(***************************************************************************)
(* _download_one, the pure parts.                                          *)
(***************************************************************************)
\* variant: the two strategies are tested in the wrong branches
SkipCheckSwapped(mode, e, outExists, tarExists) ==
    /\ e # "none"
    /\ IF mode = "files"
       THEN e = "index_tar" /\ outExists
       ELSE e = "index" /\ tarExists

\* variant: the check of the time before tar output, which looks at neither
\* the strategy nor the output mode
SkipCheckNoMode(mode, e, outExists, tarExists) ==
    /\ e # "none"
    /\ outExists

\* variant: the artifact is not looked for
SkipCheckIgnoresArtifact(mode, e, outExists, tarExists) ==
    /\ e # "none"
    /\ IF mode = "files" THEN e = "index" ELSE e = "index_tar"

\* lines 184-204: the task returns `skipped`
SkipCheck(mode, e, outExists, tarExists) ==
    /\ e # "none"
    /\ IF mode = "files"
       THEN e = "index" /\ outExists
       ELSE e = "index_tar" /\ tarExists

\* variant: the staged files are moved into the directory that is there
CommitPathsMerges(mode, od, td, tp, tt, sel) ==
    IF mode = "files"
    THEN [out_dir |-> Dir(od.files \cup td.files), tmp_dir |-> NoDir, tar_path |-> tp,
          tmp_tar |-> tt]
    ELSE [out_dir |-> od, tmp_dir |-> NoDir,
          tar_path |-> Tar(<<NameMeta>> \o sel, sel), tmp_tar |-> NoTar]

\* variant: metadata.json is added after the files
CommitPathsMetaLast(mode, od, td, tp, tt, sel) ==
    IF mode = "files"
    THEN [out_dir |-> Dir(td.files), tmp_dir |-> NoDir, tar_path |-> tp, tmp_tar |-> tt]
    ELSE [out_dir |-> od, tmp_dir |-> NoDir,
          tar_path |-> Tar(sel \o <<NameMeta>>, sel), tmp_tar |-> NoTar]

\* lines 229-262: the paths of one accession after the commit step.
\* td is D.tmp as the download loop left it, sel the selected names.
CommitPaths(mode, od, td, tp, tt, sel) ==
    IF mode = "files"
    THEN [out_dir |-> Dir(td.files), tmp_dir |-> NoDir, tar_path |-> tp, tmp_tar |-> tt]
    ELSE [out_dir |-> od, tmp_dir |-> NoDir,
          tar_path |-> Tar(<<NameMeta>> \o sel, sel), tmp_tar |-> NoTar]

\* variant: the cleanup forgets the staging directory
CleanupOnlyTar(td, tt) == [tmp_dir |-> td, tmp_tar |-> NoTar]

\* lines 282-290: the staging paths after the cleanup of the except clause
CleanupPaths(td, tt) == [tmp_dir |-> NoDir, tmp_tar |-> NoTar]

\* variant: mkdir(exist_ok=True) without the rmtree before it
StageResetKeepsStale(td, tt) ==
    [tmp_dir |-> IF td.exists THEN td ELSE Dir({}), tmp_tar |-> NoTar]

\* lines 208-213: the staging paths after stage reset
StageReset(td, tt) == [tmp_dir |-> Dir({}), tmp_tar |-> NoTar]

\* line 227: D.tmp after (tmp_dir / name).write_bytes(content)
WriteFile(td, name) == Dir(td.files \cup {name})

\* line 154: all(r.status != "error" for r in results)
NoErrors(results) == \A t \in Acc : results[t].status # "error"

\* variant: the cache is removed whatever the results are
CacheAlwaysRemoved(c, results) == "absent"

\* lines 154-160: the quarter cache after the cleanup decision
CacheAfterRun(c, results) == IF NoErrors(results) THEN "absent" ELSE c

\* SecClient._request before it is called
ReqIdle == [state |-> "idle", attempt |-> 0, last_exc |-> "none", gets |-> 0,
            sleeps |-> 0, last_sleep |-> 0, last_resp |-> Ok200]

\* what the next run remembers of the run before it: whether that run returned
\* with every result `downloaded`, in which output mode, and which of its
\* results were `downloaded`
NoLast == [all_downloaded |-> FALSE, mode |-> "files", downloaded |-> {}]
LastOf(ph, mode, results) ==
    LET got == {a \in Acc : results[a].status = "downloaded"}
    IN  IF ph = "returned" /\ got # {}
        THEN [all_downloaded |-> got = Acc, mode |-> mode, downloaded |-> got]
        ELSE NoLast

(***************************************************************************)
(* RateLimiter (network/rate_limit.py).  Time is counted in ticks.          *)
(***************************************************************************)
Callers == 1 .. NCallers

\* RateLimiter.__init__: _interval, _next_time = 0.0, the lock free (0)
NewLimiter(interval) == [interval |-> interval, next_time |-> 0, lock |-> 0]

WaiterIdle == [pc |-> "idle", until |-> 0]

\* variant: the next slot is counted from the previous slot only
GrantedNoMax(lim, now2) ==
    [lim EXCEPT !.next_time = @ + lim.interval, !.lock = 0]

\* lines 26-27, then the lock is released: the limiter after a grant at now2
Granted(lim, now2) ==
    [lim EXCEPT !.next_time = Max(@, now2) + lim.interval, !.lock = 0]

\* the rate limiter while no one uses it
RateIdle ==
    /\ clock = 0
    /\ limiter = NewLimiter(1)
    /\ waiters = [c \in Callers |-> WaiterIdle]
    /\ starts = <<>>

(***************************************************************************)
(* The quarterly index: parsed rows, deduplication, form and entity        *)
(* filters (index/master.py, index/filter.py, download_quarter 117-120).   *)
(* Form types and entity IDs are strings of characters.                    *)
(***************************************************************************)
Form10Q  == <<"1", "0", "-", "Q">>
Form10QA == <<"1", "0", "-", "Q", "/", "A">>
Form8K   == <<"8", "-", "K">>
Cik7     == <<"7">>
Cik42    == <<"4", "2">>

\* MasterIndexRow, with its derived accession
Row(cik, form_type, accession) ==
    [cik |-> cik, form_type |-> form_type, accession |-> accession]

IndexRowSet ==
    {Row(c, f, a) : c \in {Cik7, Cik42}, f \in {Form10Q, Form10QA, Form8K},
                    a \in {"acc1", "acc2"}}

\* parse_master_index returns one row or more, in line order
ParsedIndexes == UNION {[1 .. n -> IndexRowSet] : n \in 1 .. MaxRows}

\* sub in s, for strings
Contains(s, sub) ==
    \E i \in 1 .. Len(s) - Len(sub) + 1 : SubSeq(s, i, i + Len(sub) - 1) = sub

\* str.zfill(width)
ZFill(s, width) ==
    IF Len(s) >= width THEN s
    ELSE [i \in 1 .. width |-> IF i <= width - Len(s) THEN "0" ELSE s[i - (width - Len(s))]]

\* FilingFilter plus the downloader's cik_set; the empty cik_set is None
Filter(forms, include_amended, cik_set) ==
    [forms |-> forms, include_amended |-> include_amended, cik_set |-> cik_set]

\* _normalize_cik, for values of digits and spaces: str(int(s)).zfill(10)
RECURSIVE StripZeros(_)
StripZeros(s) == IF Len(s) > 1 /\ Head(s) = "0" THEN StripZeros(Tail(s)) ELSE s
NormalizeCik(value) ==
    LET s == Strip(value)
    IN  IF s = <<>> THEN <<>> ELSE ZFill(StripZeros(s), cik_width)

\* load_ticker_to_cik_map().get(key, set()): one ticker is listed
TickerToCik(key) == IF key = <<"T">> THEN {ZFill(Cik42, cik_width)} ELSE {}

\* str.upper() on the characters the model uses
Upper(s) == [i \in 1 .. Len(s) |-> IF s[i] = "t" THEN "T" ELSE IF s[i] = "z" THEN "Z" ELSE s[i]]

\* resolve_cik_filter: the values collected from the cik and the ticker
\* arguments (the empty list stands for None); `values or None` makes the
\* empty set None, which the model writes as the empty set
ResolveCikFilter(cik, ticker) ==
    LET keys == {Upper(Strip(ticker[i])) : i \in DOMAIN ticker} \ {<<>>}
    IN  ({NormalizeCik(cik[i]) : i \in DOMAIN cik} \ {<<>>})
            \cup UNION {TickerToCik(key) : key \in keys}

\* FilingDownloader.__init__, lines 93-94: the filter of a downloader made
\* with the given cik and ticker arguments
DownloaderFilter(forms, include_amended, cik, ticker) ==
    [forms |-> forms, include_amended |-> include_amended,
     cik_set |-> ResolveCikFilter(cik, ticker), cik |-> cik, ticker |-> ticker]

Filters ==
    {DownloaderFilter(fs, ia, e.cik, e.ticker) :
        fs \in {{Form10Q}, {Form10Q, Form10QA}}, ia \in BOOLEAN,
        e \in {[cik |-> <<>>, ticker |-> <<>>],
               [cik |-> <<<<"0", "4", "2">>>>, ticker |-> <<>>],
               [cik |-> <<>>, ticker |-> <<<<"t">>>>],
               [cik |-> <<>>, ticker |-> <<<<"z">>>>]}}

\* variant: the amendment policy is not applied
FilterMatchNoPolicy(f, row) == row.form_type \in f.forms

\* FilingFilter.match
FilterMatch(f, row) ==
    IF row.form_type \notin f.forms THEN FALSE
    ELSE IF ~f.include_amended /\ Contains(row.form_type, <<"/", "A">>) THEN FALSE
    ELSE TRUE

\* variant: every row is yielded
IterAllRows(rows) == rows

\* iter_unique_accessions
RECURSIVE UniqueFrom(_, _)
UniqueFrom(rows, seen) ==
    IF rows = <<>> THEN <<>>
    ELSE IF Head(rows).accession \in seen THEN UniqueFrom(Tail(rows), seen)
    ELSE <<Head(rows)>> \o UniqueFrom(Tail(rows), seen \cup {Head(rows).accession})

IterUniqueAccessions(rows) == UniqueFrom(rows, {})

\* filter_master_rows
FilterMasterRows(rows, f) ==
    SelectSeq(IterUniqueAccessions(rows), LAMBDA r : FilterMatch(f, r))

\* variant: the entity filter is not applied
MatchedRowsAllEntities(rows, f) == FilterMasterRows(rows, f)

\* download_quarter, lines 117-120
MatchedRows(rows, f) ==
    LET m == FilterMasterRows(rows, f)
    IN  IF f.cik_set # {}
        THEN SelectSeq(m, LAMBDA r : ZFill(r.cik, cik_width) \in f.cik_set)
        ELSE m

\* the DownloadResult of a row, as far as the index decides it
RowResult(row, status) ==
    [accession |-> row.accession, cik |-> row.cik, form_type |-> row.form_type,
     status |-> status]
NoRowResult == [accession |-> "", cik |-> <<>>, form_type |-> <<>>, status |-> "none"]

\* variant: the results are listed as the tasks end
GatherAsCompleted(rs, order) == [k \in 1 .. Len(order) |-> rs[order[k]]]

\* asyncio.gather: the results in the order of the awaitables
Gather(rs, order) == rs

\* the calls that are checked on their own, while none of them is made
UnitIdle ==
    /\ filing = [pc |-> "idle"]
    /\ api = [pc |-> "idle"]
    /\ extract = [pc |-> "idle"]
    /\ parse = [pc |-> "idle"]

\* the index pipeline while it is not in use
IndexIdle ==
    /\ index_rows = <<>>
    /\ flt = Filter({}, FALSE, {})
    /\ matched = <<>>
    /\ task_result = <<>>
    /\ done_order = <<>>
    /\ result_list = <<>>
    /\ ix_pc = "start"

\* variant: the two counters are passed in each other's place
ProgressArgsSwapped(c, ip) == [completed |-> ip, in_progress |-> c]

\* self._on_progress(completed, total, result, in_progress): the counters the
\* observer is called with (lines 124, 137, 145)
ProgressArgs(c, ip) == [completed |-> c, in_progress |-> ip]

(***************************************************************************)
(* Initial state: an empty data directory, or one in which an earlier      *)
(* process, killed while it staged these filings, left the staging paths.  *)
(***************************************************************************)
MainInit ==
    /\ phase = "init"
    /\ run = 0
    /\ output_format = "files"
    /\ \E c \in 0 .. MaxConcurrency : concurrency = ClampConcurrency(c)
    /\ cache = "absent"
    /\ manifest_disk = [a \in Acc |-> "none"]
    /\ manifest = [a \in Acc |-> "none"]
    /\ out_dir = [a \in Acc |-> NoDir]
    /\ tar_path = [a \in Acc |-> NoTar]
    /\ \E debris \in {{}, Acc} :
          /\ tmp_dir = [a \in Acc |-> IF a \in debris THEN StaleDir ELSE NoDir]
          /\ tmp_tar = [a \in Acc |-> IF a \in debris THEN StaleTar ELSE NoTar]
    /\ pc = [t \in Acc |-> "new"]
    /\ entry = [t \in Acc |-> "none"]
    /\ selected = [t \in Acc |-> <<>>]
    /\ idx = [t \in Acc |-> 0]
    /\ result = [t \in Acc |-> NoResult]
    /\ sem = concurrency
    /\ in_progress = 0
    /\ completed = 0
    /\ on_progress = ProgressArgs(0, 0)
    /\ saves = 0
    /\ last = NoLast
    /\ out_sel = [a \in Acc |-> <<>>]
    /\ tar_sel = [a \in Acc |-> <<>>]

Init == MainInit /\ req = ReqIdle /\ RateIdle /\ IndexIdle /\ UnitIdle

Idle == phase \in {"init", "returned", "raised", "cancelled", "killed"}

(***************************************************************************)
(* A run begins: FilingDownloader.__init__ loads the manifest, then        *)
(* download_quarter asks for the master index (download_master_index).     *)
(* With the cache file present no request is made and the tasks are        *)
(* created at once; otherwise the cache directory is made and the GET is   *)
(* awaited.                                                                *)
(***************************************************************************)
BeginRun(m) ==
    /\ Idle
    /\ run < MaxRuns
    /\ run' = run + 1
    /\ output_format' = m
    /\ manifest' = ManifestLoad(manifest_disk)
    /\ last' = LastOf(phase, output_format, result)
    /\ pc' = [t \in Acc |-> "new"]
    /\ entry' = [t \in Acc |-> "none"]
    /\ selected' = [t \in Acc |-> <<>>]
    /\ idx' = [t \in Acc |-> 0]
    /\ result' = [t \in Acc |-> NoResult]
    /\ sem' = concurrency
    /\ in_progress' = 0
    /\ completed' = 0
    /\ on_progress' = ProgressArgs(0, 0)
    /\ saves' = 0
    /\ IF cache = "file"
       THEN phase' = "gather" /\ cache' = cache
       ELSE phase' = "index" /\ cache' = "dir"
    /\ UNCHANGED <<unitVars, req, rateVars, indexVars, concurrency, manifest_disk, diskVars>>

\* download_master_index: the GET returns and the cache file is written, or
\* the request raises and download_quarter raises with it
IndexFetch ==
    /\ phase = "index"
    /\ \E script \in HttpScripts :
          IF Request(script).kind = "return"
          THEN phase' = "gather" /\ cache' = "file"
          ELSE phase' = "raised" /\ cache' = cache
    /\ UNCHANGED <<unitVars, req, rateVars, indexVars, run, output_format, concurrency, saves, last,
                   manifest_disk, manifest, diskVars, taskVars, progressVars>>

(***************************************************************************)
(* with_progress, the finally clause and the release of the semaphore, for *)
(* a task that went past the first await of _download_one.                 *)
(***************************************************************************)
\* variant: the permit of the semaphore is kept when the task ends
FinallyKeepsPermit ==
    /\ in_progress' = in_progress - 1
    /\ completed' = completed + 1
    /\ sem' = sem

FinallyRelease ==
    /\ in_progress' = in_progress - 1
    /\ completed' = completed + 1
    /\ sem' = sem + 1

\* variant: the except clause records the accession in the manifest
ErrorExitRecords(t, msg) ==
    /\ tmp_dir' = [tmp_dir EXCEPT ![t] = NoDir]
    /\ tmp_tar' = [tmp_tar EXCEPT ![t] = NoTar]
    /\ result' = [result EXCEPT ![t] = MkResult("error", msg, "none")]
    /\ manifest' = ManifestUpsert(manifest, t, StrategyOf(output_format))
    /\ pc' = [pc EXCEPT ![t] = "done"]
    /\ selected' = [selected EXCEPT ![t] = <<>>]
    /\ idx' = [idx EXCEPT ![t] = 0]
    /\ FinallyRelease
    /\ on_progress' = ProgressArgs(completed + 1, in_progress - 1)
    /\ UNCHANGED <<runVars, cache, manifest_disk, out_dir, tar_path,
                   out_sel, tar_sel, entry>>

\* variant: no except clause, the exception leaves the task and gather
\* raises it to the caller of download_quarter
ErrorExitRaises(t, msg) ==
    /\ phase' = "raised"
    /\ pc' = [pc EXCEPT ![t] = "done"]
    /\ FinallyRelease
    /\ UNCHANGED <<unitVars, run, output_format, concurrency, saves, last, req, rateVars,
                   indexVars, cache, manifest_disk, manifest, diskVars, entry,
                   selected, idx, result, on_progress>>

\* variant: the observer is not called for a task that ends with an error
ErrorExitSilent(t, msg) ==
    /\ tmp_dir' = [tmp_dir EXCEPT ![t] = CleanupPaths(tmp_dir[t], tmp_tar[t]).tmp_dir]
    /\ tmp_tar' = [tmp_tar EXCEPT ![t] = CleanupPaths(tmp_dir[t], tmp_tar[t]).tmp_tar]
    /\ result' = [result EXCEPT ![t] = MkResult("error", msg, "none")]
    /\ pc' = [pc EXCEPT ![t] = "done"]
    /\ selected' = [selected EXCEPT ![t] = <<>>]
    /\ idx' = [idx EXCEPT ![t] = 0]
    /\ FinallyRelease
    /\ on_progress' = on_progress
    /\ UNCHANGED <<runVars, cache, manifest_disk, manifest, out_dir, tar_path,
                   out_sel, tar_sel, entry>>

\* lines 282-298: the except clause of _download_one, then with_progress ends
ErrorExit(t, msg) ==
    /\ tmp_dir' = [tmp_dir EXCEPT ![t] = CleanupPaths(tmp_dir[t], tmp_tar[t]).tmp_dir]
    /\ tmp_tar' = [tmp_tar EXCEPT ![t] = CleanupPaths(tmp_dir[t], tmp_tar[t]).tmp_tar]
    /\ result' = [result EXCEPT ![t] = MkResult("error", msg, "none")]
    /\ pc' = [pc EXCEPT ![t] = "done"]
    /\ selected' = [selected EXCEPT ![t] = <<>>]
    /\ idx' = [idx EXCEPT ![t] = 0]
    /\ FinallyRelease
    /\ on_progress' = ProgressArgs(completed + 1, in_progress - 1)
    /\ UNCHANGED <<runVars, cache, manifest_disk, manifest, out_dir, tar_path,
                   out_sel, tar_sel, entry>>

\* lines 229-281: commit, manifest upsert, `downloaded`, then with_progress ends.
\* td is D.tmp with every selected file written.
CommitExit(t, td) ==
    LET p == CommitPaths(output_format, out_dir[t], td, tar_path[t], tmp_tar[t], selected[t])
    IN  /\ out_dir' = [out_dir EXCEPT ![t] = p.out_dir]
        /\ tmp_dir' = [tmp_dir EXCEPT ![t] = p.tmp_dir]
        /\ tar_path' = [tar_path EXCEPT ![t] = p.tar_path]
        /\ tmp_tar' = [tmp_tar EXCEPT ![t] = p.tmp_tar]
        /\ out_sel' = IF output_format = "files"
                      THEN [out_sel EXCEPT ![t] = selected[t]] ELSE out_sel
        /\ tar_sel' = IF output_format = "tar"
                      THEN [tar_sel EXCEPT ![t] = selected[t]] ELSE tar_sel
        /\ manifest' = ManifestUpsert(manifest, t, StrategyOf(output_format))
        /\ result' = [result EXCEPT ![t] =
                        MkResult("downloaded", "",
                                 IF output_format = "files" THEN "out_dir" ELSE "tar_path")]
        /\ pc' = [pc EXCEPT ![t] = "done"]
        /\ selected' = [selected EXCEPT ![t] = <<>>]
        /\ idx' = [idx EXCEPT ![t] = 0]
        /\ FinallyRelease
        /\ on_progress' = ProgressArgs(completed + 1, in_progress - 1)
        /\ UNCHANGED <<runVars, cache, manifest_disk, entry>>

\* variant: the task does not wait for a permit of the semaphore
TaskStartNoSem(t) ==
    /\ phase = "gather"
    /\ pc[t] = "new"
    /\ entry' = [entry EXCEPT ![t] = ManifestGet(manifest, t)]
    /\ IF SkipCheck(output_format, ManifestGet(manifest, t), out_dir[t].exists, tar_path[t].exists)
       THEN /\ result' = [result EXCEPT ![t] =
                            MkResult("skipped", "",
                                     IF output_format = "files" THEN "none" ELSE "tar_path")]
            /\ pc' = [pc EXCEPT ![t] = "done"]
            /\ completed' = completed + 1
            /\ on_progress' = ProgressArgs(completed + 1, in_progress)
            /\ UNCHANGED <<sem, in_progress, tmp_dir, tmp_tar>>
       ELSE /\ tmp_dir' = [tmp_dir EXCEPT ![t] = StageReset(tmp_dir[t], tmp_tar[t]).tmp_dir]
            /\ tmp_tar' = [tmp_tar EXCEPT ![t] = StageReset(tmp_dir[t], tmp_tar[t]).tmp_tar]
            /\ pc' = [pc EXCEPT ![t] = "listing"]
            /\ sem' = sem - 1
            /\ in_progress' = in_progress + 1
            /\ on_progress' = ProgressArgs(completed, in_progress + 1)
            /\ UNCHANGED <<result, completed>>
    /\ UNCHANGED <<runVars, cache, manifest_disk, manifest, out_dir, tar_path,
                   out_sel, tar_sel, selected, idx>>

(***************************************************************************)
(* A task acquires the semaphore, counts itself in progress and runs       *)
(* _download_one up to its first await: either it returns `skipped` (and   *)
(* with_progress finishes in the same step), or it resets the staging      *)
(* paths and waits for the folder listing.                                 *)
(***************************************************************************)
TaskStart(t) ==
    /\ phase = "gather"
    /\ pc[t] = "new"
    /\ sem > 0
    /\ entry' = [entry EXCEPT ![t] = ManifestGet(manifest, t)]
    /\ IF SkipCheck(output_format, ManifestGet(manifest, t), out_dir[t].exists, tar_path[t].exists)
       THEN /\ result' = [result EXCEPT ![t] =
                            MkResult("skipped", "",
                                     IF output_format = "files" THEN "none" ELSE "tar_path")]
            /\ pc' = [pc EXCEPT ![t] = "done"]
            /\ completed' = completed + 1
            /\ on_progress' = ProgressArgs(completed + 1, in_progress)
            /\ UNCHANGED <<sem, in_progress, tmp_dir, tmp_tar>>
       ELSE /\ tmp_dir' = [tmp_dir EXCEPT ![t] = StageReset(tmp_dir[t], tmp_tar[t]).tmp_dir]
            /\ tmp_tar' = [tmp_tar EXCEPT ![t] = StageReset(tmp_dir[t], tmp_tar[t]).tmp_tar]
            /\ pc' = [pc EXCEPT ![t] = "listing"]
            /\ sem' = sem - 1
            /\ in_progress' = in_progress + 1
            /\ on_progress' = ProgressArgs(completed, in_progress + 1)
            /\ UNCHANGED <<result, completed>>
    /\ UNCHANGED <<runVars, cache, manifest_disk, manifest, out_dir, tar_path,
                   out_sel, tar_sel, selected, idx>>

\* lines 216-223: get_json returns or raises; the listing is parsed and the
\* files are selected; the task then waits for the first file
TaskListing(t) ==
    /\ phase = "gather"
    /\ pc[t] = "listing"
    /\ \E script \in HttpScripts, payload \in Listings :
          LET r == Request(script)
              files == ExtractFiles(payload)
              sel == SelectFiles(files.names)
          IN  IF r.kind = "raise" THEN ErrorExit(t, r.exc)
              ELSE IF ~files.ok THEN ErrorExit(t, files.err)
              ELSE IF sel = <<>> THEN ErrorExit(t, "DownloadError: no files matched")
              ELSE /\ selected' = [selected EXCEPT ![t] = sel]
                   /\ idx' = [idx EXCEPT ![t] = 1]
                   /\ pc' = [pc EXCEPT ![t] = "download"]
                   /\ UNCHANGED <<runVars, cache, manifest_disk, manifest, diskVars,
                                  entry, result, progressVars>>

\* lines 225-227: get_bytes of the current file returns or raises; the file
\* is written to D.tmp (the write may fail); after the last file the task
\* commits and returns
TaskDownload(t) ==
    /\ phase = "gather"
    /\ pc[t] = "download"
    /\ \E script \in HttpScripts, write_ok \in BOOLEAN :
          LET r == Request(script)
              td == WriteFile(tmp_dir[t], selected[t][idx[t]])
          IN  IF r.kind = "raise" THEN ErrorExit(t, r.exc)
              ELSE IF ~write_ok THEN ErrorExit(t, "OSError")
              ELSE IF idx[t] < Len(selected[t])
              THEN /\ tmp_dir' = [tmp_dir EXCEPT ![t] = td]
                   /\ idx' = [idx EXCEPT ![t] = idx[t] + 1]
                   /\ UNCHANGED <<runVars, cache, manifest_disk, manifest, out_dir,
                                  tar_path, tmp_tar, out_sel, tar_sel, pc, entry,
                                  selected, result, progressVars>>
              ELSE CommitExit(t, td)

(***************************************************************************)
(* gather has every result: the manifest is saved and the quarter cache is *)
(* removed unless a result is an error.                                    *)
(***************************************************************************)
\* variant: the manifest is saved while tasks are still running
SaveManifestEarly ==
    /\ phase = "gather"
    /\ manifest_disk' = ManifestSaveAtomic(manifest)
    /\ saves' = saves + 1
    /\ phase' = "saved"
    /\ UNCHANGED <<unitVars, req, rateVars, indexVars, run, output_format, concurrency, last, manifest,
                   cache, diskVars, taskVars, progressVars>>

\* variant: the manifest is saved only when no result is an error
SaveManifestIfNoErrors ==
    /\ phase = "gather"
    /\ \A t \in Acc : pc[t] = "done"
    /\ manifest_disk' = IF NoErrors(result) THEN ManifestSaveAtomic(manifest)
                        ELSE manifest_disk
    /\ saves' = saves + 1
    /\ phase' = "saved"
    /\ UNCHANGED <<unitVars, req, rateVars, indexVars, run, output_format, concurrency, last, manifest,
                   cache, diskVars, taskVars, progressVars>>

\* lines 149-150: gather has returned, the manifest is saved
SaveManifest ==
    /\ phase = "gather"
    /\ \A t \in Acc : pc[t] = "done"
    /\ manifest_disk' = ManifestSaveAtomic(manifest)
    /\ saves' = saves + 1
    /\ phase' = "saved"
    /\ UNCHANGED <<unitVars, req, rateVars, indexVars, run, output_format, concurrency, last, manifest,
                   cache, diskVars, taskVars, progressVars>>

\* lines 154-161: the cache cleanup, and the results are returned
EndRun ==
    /\ phase = "saved"
    /\ cache' = CacheAfterRun(cache, result)
    /\ phase' = "returned"
    /\ UNCHANGED <<unitVars, req, rateVars, indexVars, run, output_format, concurrency, saves, last,
                   manifest, manifest_disk, diskVars, taskVars, progressVars>>

(***************************************************************************)
(* Cancellation of the run while it awaits the index or gather.  gather    *)
(* cancels every child; a child that is waiting gets CancelledError at its *)
(* await, which is no Exception: the except clause of _download_one does   *)
(* not run, the finally clause of with_progress does.  That clause counts  *)
(* the task as completed and then fails on the unbound local `result`      *)
(* while it builds the arguments of the observer, which is not called.     *)
(***************************************************************************)
Cancel ==
    /\ phase \in {"index", "gather"}
    /\ phase' = IF phase = "index" THEN "cancelled" ELSE "unwinding"
    /\ UNCHANGED <<unitVars, req, rateVars, indexVars, run, output_format, concurrency, saves, last, cache,
                   manifest_disk, manifest, diskVars, taskVars, progressVars>>

CancelTask(t) ==
    /\ phase = "unwinding"
    /\ pc[t] \in {"new", "listing", "download"}
    /\ IF pc[t] = "new"
       THEN pc' = [pc EXCEPT ![t] = "cancelled_new"] /\ UNCHANGED progressVars
       ELSE /\ pc' = [pc EXCEPT ![t] = "cancelled"]
            /\ FinallyRelease
            /\ UNCHANGED on_progress
    /\ UNCHANGED <<runVars, cache, manifest_disk, manifest, diskVars, entry,
                   selected, idx, result>>

\* variant: the manifest is saved in a finally clause around gather
CancelDoneSaves ==
    /\ phase = "unwinding"
    /\ \A t \in Acc : pc[t] \in {"done", "cancelled", "cancelled_new"}
    /\ phase' = "cancelled"
    /\ manifest_disk' = ManifestSaveAtomic(manifest)
    /\ saves' = saves + 1
    /\ UNCHANGED <<unitVars, req, rateVars, indexVars, run, output_format, concurrency, last, cache,
                   manifest, diskVars, taskVars, progressVars>>

\* every child has unwound: download_quarter raises CancelledError at gather,
\* before save_atomic and the cache cleanup
CancelDone ==
    /\ phase = "unwinding"
    /\ \A t \in Acc : pc[t] \in {"done", "cancelled", "cancelled_new"}
    /\ phase' = "cancelled"
    /\ UNCHANGED <<unitVars, req, rateVars, indexVars, run, output_format, concurrency, saves, last, cache,
                   manifest_disk, manifest, diskVars, taskVars, progressVars>>

\* the process is killed while the run waits, or between save_atomic and the
\* cache cleanup: nothing more runs and what it held in memory is gone
Kill ==
    /\ phase \in {"index", "gather", "saved"}
    /\ phase' = "killed"
    /\ manifest' = [a \in Acc |-> "none"]
    /\ pc' = [t \in Acc |-> "new"]
    /\ entry' = [t \in Acc |-> "none"]
    /\ selected' = [t \in Acc |-> <<>>]
    /\ idx' = [t \in Acc |-> 0]
    /\ result' = [t \in Acc |-> NoResult]
    /\ sem' = concurrency
    /\ in_progress' = 0
    /\ completed' = 0
    /\ on_progress' = ProgressArgs(0, 0)
    /\ UNCHANGED <<unitVars, req, rateVars, indexVars, run, output_format, concurrency, saves, last, cache,
                   manifest_disk, diskVars>>

Next ==
    \/ \E m \in Modes : BeginRun(m)
    \/ IndexFetch
    \/ \E t \in Acc : TaskStart(t)
    \/ \E t \in Acc : TaskListing(t)
    \/ \E t \in Acc : TaskDownload(t)
    \/ SaveManifest
    \/ EndRun
    \/ Cancel
    \/ \E t \in Acc : CancelTask(t)
    \/ CancelDone
    \/ Kill

Spec == Init /\ [][Next]_vars

(***************************************************************************)
(* The runs that are neither cancelled nor killed, under the scheduling of *)
(* the event loop: a coroutine that can take its next step takes it, and   *)
(* every HTTP request ends, by returning or by raising.                    *)
(***************************************************************************)
RunStep ==
    \/ IndexFetch
    \/ \E t \in Acc : TaskStart(t)
    \/ \E t \in Acc : TaskListing(t)
    \/ \E t \in Acc : TaskDownload(t)
    \/ SaveManifest
    \/ EndRun

NextLive ==
    \/ \E m \in Modes : BeginRun(m)
    \/ RunStep

SpecLive == Init /\ [][NextLive]_vars /\ WF_vars(RunStep)

(***************************************************************************)
(* SecClient._request on its own, attempt by attempt: every GET is         *)
(* answered by any response, and the loop sleeps, retries, returns or      *)
(* raises as AttemptStep says.                                             *)
(***************************************************************************)
mainVars == <<phase, run, output_format, concurrency, cache, manifest_disk, manifest,
              out_dir, tmp_dir, tar_path, tmp_tar, pc, entry, selected, idx, result,
              sem, in_progress, completed, saves, last, out_sel, tar_sel,
              on_progress>>

ReqInit ==
    /\ MainInit
    /\ UnitIdle
    /\ concurrency = 1
    /\ tmp_dir = [a \in Acc |-> NoDir]
    /\ req = ReqIdle
    /\ RateIdle
    /\ IndexIdle

\* _request is called: last_exc = None, the loop starts at attempt 1
ReqStart ==
    /\ req.state \in {"idle", "returned", "raised"}
    /\ req' = [ReqIdle EXCEPT !.state = "running", !.attempt = 1]
    /\ UNCHANGED <<mainVars, rateVars, indexVars, unitVars>>

\* variant: the loop runs over range(1, max_retries + 2)
ReqAttemptOneMore ==
    /\ req.state = "running"
    /\ \E resp \in Responses, rand \in RandMs :
          LET st == AttemptStep(req.attempt, resp, rand)
          IN  req' = IF st.next = "return"
                     THEN [req EXCEPT !.state = "returned", !.gets = @ + 1,
                                      !.last_sleep = 0, !.last_resp = resp]
                     ELSE [req EXCEPT !.state = IF req.attempt = max_retries + 1
                                                THEN "raised" ELSE "running",
                                      !.attempt = IF req.attempt = max_retries + 1
                                                  THEN @ ELSE @ + 1,
                                      !.last_exc = st.exc,
                                      !.gets = @ + 1,
                                      !.sleeps = @ + 1,
                                      !.last_sleep = st.sleep_ms,
                                      !.last_resp = resp]
    /\ UNCHANGED <<mainVars, rateVars, indexVars, unitVars>>

\* one iteration of the loop; after the last one the recorded error is raised
ReqAttempt ==
    /\ req.state = "running"
    /\ \E resp \in Responses, rand \in RandMs :
          LET st == AttemptStep(req.attempt, resp, rand)
          IN  req' = IF st.next = "return"
                     THEN [req EXCEPT !.state = "returned", !.gets = @ + 1,
                                      !.last_sleep = 0, !.last_resp = resp]
                     ELSE [req EXCEPT !.state = IF req.attempt = max_retries
                                                THEN "raised" ELSE "running",
                                      !.attempt = IF req.attempt = max_retries
                                                  THEN @ ELSE @ + 1,
                                      !.last_exc = st.exc,
                                      !.gets = @ + 1,
                                      !.sleeps = @ + 1,
                                      !.last_sleep = st.sleep_ms,
                                      !.last_resp = resp]
    /\ UNCHANGED <<mainVars, rateVars, indexVars, unitVars>>

ReqNext == ReqStart \/ ReqAttempt

SpecReq == ReqInit /\ [][ReqNext]_vars

(***************************************************************************)
(* The rate limiter shared by concurrent callers of SecClient._request.    *)
(* A caller is idle (between requests, or between the attempts of one),    *)
(* sleeping inside RateLimiter.wait with the lock held, or in flight: its   *)
(* GET was started in the step in which wait() returned (client.py 115-117 *)
(* has no suspension point between the two).  asyncio.sleep(d) returns d   *)
(* or more after it was called.                                            *)
(***************************************************************************)
RateInit ==
    /\ MainInit
    /\ UnitIdle
    /\ concurrency = 1
    /\ tmp_dir = [a \in Acc |-> NoDir]
    /\ req = ReqIdle
    /\ IndexIdle
    /\ clock \in {0, 1}
    /\ \E iv \in 1 .. MaxInterval : limiter = NewLimiter(iv)
    /\ waiters = [c \in Callers |-> WaiterIdle]
    /\ starts = <<>>

\* wait() is entered with the lock free: the caller takes the lock and either
\* must sleep until _next_time or is granted at once and starts its GET
WaitEnter(c) ==
    /\ waiters[c].pc = "idle"
    /\ limiter.lock = 0
    /\ Len(starts) < MaxStarts
    /\ IF clock < limiter.next_time
       THEN /\ limiter' = [limiter EXCEPT !.lock = c]
            /\ waiters' = [waiters EXCEPT ![c] = [pc |-> "sleeping", until |-> limiter.next_time]]
            /\ UNCHANGED starts
       ELSE /\ limiter' = Granted(limiter, clock)
            /\ waiters' = [waiters EXCEPT ![c] = [pc |-> "in_flight", until |-> 0]]
            /\ starts' = Append(starts, clock)
    /\ UNCHANGED <<clock, mainVars, req, indexVars, unitVars>>

\* the sleep inside wait() is over: the grant is made at the time read then
WaitWake(c) ==
    /\ waiters[c].pc = "sleeping"
    /\ clock >= waiters[c].until
    /\ limiter' = Granted(limiter, clock)
    /\ waiters' = [waiters EXCEPT ![c] = [pc |-> "in_flight", until |-> 0]]
    /\ starts' = Append(starts, clock)
    /\ UNCHANGED <<clock, mainVars, req, indexVars, unitVars>>

\* the caller is cancelled during the sleep: the lock is released, no grant
WaitCancel(c) ==
    /\ waiters[c].pc = "sleeping"
    /\ limiter' = [limiter EXCEPT !.lock = 0]
    /\ waiters' = [waiters EXCEPT ![c] = WaiterIdle]
    /\ UNCHANGED <<clock, starts, mainVars, req, indexVars, unitVars>>

\* the GET is answered or fails: the caller retries or goes on to its next
\* request, through wait() in both cases
Respond(c) ==
    /\ waiters[c].pc = "in_flight"
    /\ waiters' = [waiters EXCEPT ![c] = WaiterIdle]
    /\ UNCHANGED <<clock, limiter, starts, mainVars, req, indexVars, unitVars>>

Tick ==
    /\ clock < MaxClock
    /\ clock' = clock + 1
    /\ UNCHANGED <<limiter, waiters, starts, mainVars, req, indexVars, unitVars>>

RateNext ==
    \/ \E c \in Callers : WaitEnter(c)
    \/ \E c \in Callers : WaitWake(c)
    \/ \E c \in Callers : WaitCancel(c)
    \/ \E c \in Callers : Respond(c)
    \/ Tick

SpecRate == RateInit /\ [][RateNext]_vars

(***************************************************************************)
(* The index pipeline of one quarter run: the parsed index is filtered,    *)
(* one task per matched row runs, the tasks end in any order, and gather   *)
(* hands back the list that download_quarter returns.                      *)
(***************************************************************************)
IndexInit ==
    /\ MainInit
    /\ UnitIdle
    /\ concurrency = 1
    /\ tmp_dir = [a \in Acc |-> NoDir]
    /\ req = ReqIdle
    /\ RateIdle
    /\ index_rows \in ParsedIndexes
    /\ flt \in Filters
    /\ matched = <<>>
    /\ task_result = <<>>
    /\ done_order = <<>>
    /\ result_list = <<>>
    /\ ix_pc = "start"

\* lines 115-121 and 148: the rows are matched and their tasks created
SelectRows ==
    /\ ix_pc = "start"
    /\ matched' = MatchedRows(index_rows, flt)
    /\ task_result' = [i \in 1 .. Len(matched') |-> NoRowResult]
    /\ ix_pc' = "gather"
    /\ UNCHANGED <<index_rows, flt, done_order, result_list, mainVars, req, rateVars, unitVars>>

\* the task of the i-th matched row returns its result
TaskEnds(i) ==
    /\ ix_pc = "gather"
    /\ i \in 1 .. Len(matched)
    /\ task_result[i] = NoRowResult
    /\ \E st \in {"downloaded", "error"} :
          task_result' = [task_result EXCEPT ![i] = RowResult(matched[i], st)]
    /\ done_order' = Append(done_order, i)
    /\ UNCHANGED <<index_rows, flt, matched, result_list, ix_pc, mainVars, req, rateVars, unitVars>>

\* line 149 and 161: every task has ended, the list is returned
GatherReturns ==
    /\ ix_pc = "gather"
    /\ \A i \in 1 .. Len(matched) : task_result[i] # NoRowResult
    /\ result_list' = Gather(task_result, done_order)
    /\ ix_pc' = "returned"
    /\ UNCHANGED <<index_rows, flt, matched, task_result, done_order, mainVars, req, rateVars, unitVars>>

IndexNext ==
    \/ SelectRows
    \/ \E i \in 1 .. MaxRows : TaskEnds(i)
    \/ GatherReturns

SpecIndex == IndexInit /\ [][IndexNext]_vars

(***************************************************************************)
(* Output paths (storage/layout.py, downloader.py 62-63).  A path is the   *)
(* sequence of its components, a component a string of characters;         *)
(* pathlib's `/` splits its right operand at every "/".  The directories   *)
(* "filings" and "filings_tar" are written f and ft.                       *)
(***************************************************************************)
\* data_dir, a directory of one component
DataDir == <<<<"d">>>>

\* the components of a relative path string
RECURSIVE SplitSlash(_, _)
SplitSlash(s, cur) ==
    IF s = <<>> THEN (IF cur = <<>> THEN <<>> ELSE <<cur>>)
    ELSE IF Head(s) = "/"
         THEN (IF cur = <<>> THEN <<>> ELSE <<cur>>) \o SplitSlash(Tail(s), <<>>)
         ELSE SplitSlash(Tail(s), Append(cur, Head(s)))

\* Path.__truediv__ with a relative string
PathJoin(p, s) == p \o SplitSlash(s, <<>>)

\* form_dir_name
form_dir_name(form_type) ==
    LET s1 == Strip(form_type)
        s2 == [i \in 1 .. Len(s1) |-> IF s1[i] = "/" THEN "_" ELSE s1[i]]
    IN  SelectSeq(s2, LAMBDA c : c # " ")

\* variant: the directory of a filing is the directory of its entity
filing_dirByEntity(form_type, cik, accession, group_label) ==
    LET base == PathJoin(PathJoin(DataDir, <<"f">>), form_dir_name(form_type))
    IN  IF group_label # <<>>
        THEN PathJoin(base, group_label)
        ELSE PathJoin(base, ZFill(cik, cik_width))

\* filing_dir
filing_dir(form_type, cik, accession, group_label) ==
    LET base == PathJoin(PathJoin(DataDir, <<"f">>), form_dir_name(form_type))
    IN  IF group_label # <<>>
        THEN PathJoin(PathJoin(base, group_label), accession)
        ELSE PathJoin(PathJoin(base, ZFill(cik, cik_width)), accession)

\* _filing_tar_path
FilingTarPath(form_type, cik, accession) ==
    PathJoin(PathJoin(PathJoin(PathJoin(DataDir, <<"f", "t">>), form_type),
                      ZFill(cik, cik_width)), accession \o <<".", "t", "a", "r">>)

\* line 206: out_dir.with_name(out_dir.name + ".tmp")
TmpDirOf(od) == [od EXCEPT ![Len(od)] = @ \o <<".", "t", "m", "p">>]

\* line 207: tar_path.with_suffix(".tmp"); the suffix of a name starts at its
\* last dot, a dot in first place aside
TmpTarOf(tp) ==
    LET name == tp[Len(tp)]
        dots == {i \in 2 .. Len(name) : name[i] = "."}
        stem == IF dots = {} THEN name
                ELSE SubSeq(name, 1, (CHOOSE i \in dots : \A j \in dots : j <= i) - 1)
    IN  [tp EXCEPT ![Len(tp)] = stem \o <<".", "t", "m", "p">>]

(***************************************************************************)
(* _download_one on its own, statement by statement, for one row.  D, Dtmp,*)
(* T and Ttmp are what the disk holds at out_dir, tmp_dir, tar_path and    *)
(* tmp_tar; manifest is the entry of the accession in self._manifest;      *)
(* before is the disk and the manifest as the call found them; log lists   *)
(* the effects of the call in the order they were made.                    *)
(***************************************************************************)
Did(op, name) == [op |-> op, name |-> name]

\* what an earlier run may have committed, and what a killed one may have left
FilingDisks ==
    [D : {NoDir, Dir({NameStale, NameR})},
     Dtmp : {NoDir, StaleDir},
     T : {NoTar, Tar(<<NameMeta, NameStale>>, <<NameStale>>)},
     Ttmp : {NoTar, StaleTar},
     manifest : {"none", "index", "index_tar"}]

FilingInit ==
    /\ MainInit
    /\ concurrency = 1
    /\ tmp_dir = [a \in Acc |-> NoDir]
    /\ req = ReqIdle
    /\ RateIdle
    /\ IndexIdle
    /\ api = [pc |-> "idle"]
    /\ extract = [pc |-> "idle"]
    /\ parse = [pc |-> "idle"]
    /\ \E mode \in Modes, form \in {Form10Q, Form10QA}, label \in {<<>>, <<"G">>},
          disk \in FilingDisks :
          filing = [pc |-> "new", mode |-> mode, row |-> Row(Cik42, form, <<"0", "1">>),
                    group_label |-> label, before |-> disk,
                    D |-> disk.D, Dtmp |-> disk.Dtmp, T |-> disk.T, Ttmp |-> disk.Ttmp,
                    manifest |-> disk.manifest, out_dir |-> <<>>, tar_path |-> <<>>,
                    entry |-> "none", listing |-> Payload("none", <<>>),
                    selected |-> <<>>, idx |-> 0,
                    result |-> MkResult("none", "", <<>>), log |-> <<>>]

\* variant: the except clause removes the committed artifacts as well
FilingErrorRemovesOutput(f, msg) ==
    [f EXCEPT !.Dtmp = CleanupPaths(f.Dtmp, f.Ttmp).tmp_dir,
              !.Ttmp = CleanupPaths(f.Dtmp, f.Ttmp).tmp_tar,
              !.D = NoDir,
              !.T = NoTar,
              !.result = MkResult("error", msg, <<>>),
              !.pc = "done"]

\* lines 282-298: the except clause cleans up and returns the error result
FilingError(f, msg) ==
    [f EXCEPT !.Dtmp = CleanupPaths(f.Dtmp, f.Ttmp).tmp_dir,
              !.Ttmp = CleanupPaths(f.Dtmp, f.Ttmp).tmp_tar,
              !.result = MkResult("error", msg, <<>>),
              !.pc = "done"]

\* variant: the staging paths are reset before the idempotence check
FilingStartResetsFirst ==
    /\ filing.pc = "new"
    /\ LET od == filing_dir(filing.row.form_type, filing.row.cik, filing.row.accession,
                            filing.group_label)
           tp == FilingTarPath(filing.row.form_type, filing.row.cik, filing.row.accession)
           e == filing.manifest
           f == [filing EXCEPT !.out_dir = od, !.tar_path = tp, !.entry = e,
                               !.Dtmp = StageReset(filing.Dtmp, filing.Ttmp).tmp_dir,
                               !.Ttmp = StageReset(filing.Dtmp, filing.Ttmp).tmp_tar]
       IN  filing' =
             IF SkipCheck(filing.mode, e, filing.D.exists, filing.T.exists)
             THEN [f EXCEPT !.pc = "done",
                            !.result = MkResult("skipped", "",
                                          IF filing.mode = "files" THEN <<>> ELSE tp)]
             ELSE [f EXCEPT !.pc = "reset"]
    /\ UNCHANGED <<mainVars, req, rateVars, indexVars, api, extract, parse>>

\* lines 170-204: the paths, the manifest entry and the idempotence check
FilingStart ==
    /\ filing.pc = "new"
    /\ LET od == filing_dir(filing.row.form_type, filing.row.cik, filing.row.accession,
                            filing.group_label)
           tp == FilingTarPath(filing.row.form_type, filing.row.cik, filing.row.accession)
           e == filing.manifest
           f == [filing EXCEPT !.out_dir = od, !.tar_path = tp, !.entry = e]
       IN  filing' =
             IF SkipCheck(filing.mode, e, filing.D.exists, filing.T.exists)
             THEN [f EXCEPT !.pc = "done",
                            !.result = MkResult("skipped", "",
                                          IF filing.mode = "files" THEN <<>> ELSE tp)]
             ELSE [f EXCEPT !.pc = "reset"]
    /\ UNCHANGED <<mainVars, req, rateVars, indexVars, api, extract, parse>>

\* lines 208-213: stage reset
FilingStageReset ==
    /\ filing.pc = "reset"
    /\ filing' = [filing EXCEPT !.Dtmp = StageReset(filing.Dtmp, filing.Ttmp).tmp_dir,
                                !.Ttmp = StageReset(filing.Dtmp, filing.Ttmp).tmp_tar,
                                !.log = Append(@, Did("stage_reset", <<>>)),
                                !.pc = "listing"]
    /\ UNCHANGED <<mainVars, req, rateVars, indexVars, api, extract, parse>>

\* lines 215-223: the folder listing is requested; get_json returns or
\* raises; the listing is parsed and the files are selected
FilingListing ==
    /\ filing.pc = "listing"
    /\ \E script \in HttpScripts, payload \in Listings :
          LET r == Request(script)
              files == ExtractFiles(payload)
              sel == SelectFiles(files.names)
              f == [filing EXCEPT !.log = Append(@, Did("get_json", <<>>))]
          IN  filing' =
                IF r.kind = "raise" THEN FilingError(f, r.exc)
                ELSE IF ~files.ok THEN FilingError(f, files.err)
                ELSE IF sel = <<>>
                     THEN FilingError([f EXCEPT !.listing = payload],
                                      "DownloadError: no files matched")
                ELSE [f EXCEPT !.listing = payload, !.selected = sel, !.idx = 1,
                               !.pc = "download"]
    /\ UNCHANGED <<mainVars, req, rateVars, indexVars, api, extract, parse>>

\* lines 225-227: one round of the download loop; get_bytes returns or
\* raises, the file is written to D.tmp
FilingGetFile ==
    /\ filing.pc = "download"
    /\ \E script \in HttpScripts :
          LET r == Request(script)
              name == filing.selected[filing.idx]
              f == [filing EXCEPT !.log = Append(@, Did("get_bytes", name))]
          IN  filing' =
                IF r.kind = "raise" THEN FilingError(f, r.exc)
                ELSE [f EXCEPT !.Dtmp = WriteFile(filing.Dtmp, name),
                               !.log = Append(@, Did("write", name)),
                               !.idx = @ + 1,
                               !.pc = IF filing.idx < Len(filing.selected)
                                      THEN "download" ELSE "commit"]
    /\ UNCHANGED <<mainVars, req, rateVars, indexVars, api, extract, parse>>

\* variant: the upsert is made without the commit before it
FilingCommitSkipped ==
    /\ filing.pc = "commit"
    /\ filing' = [filing EXCEPT !.pc = "upsert"]
    /\ UNCHANGED <<mainVars, req, rateVars, indexVars, api, extract, parse>>

\* lines 229-262: the commit step of the output mode
FilingCommit ==
    /\ filing.pc = "commit"
    /\ LET c == CommitPaths(filing.mode, filing.D, filing.Dtmp, filing.T, filing.Ttmp,
                            filing.selected)
       IN  filing' = [filing EXCEPT !.D = c.out_dir, !.Dtmp = c.tmp_dir,
                                    !.T = c.tar_path, !.Ttmp = c.tmp_tar,
                                    !.log = Append(@, Did("commit", <<>>)),
                                    !.pc = "upsert"]
    /\ UNCHANGED <<mainVars, req, rateVars, indexVars, api, extract, parse>>

\* lines 264-272: the manifest entry is upserted
FilingUpsert ==
    /\ filing.pc = "upsert"
    /\ filing' = [filing EXCEPT !.manifest = StrategyOf(filing.mode),
                                !.log = Append(@, Did("upsert", <<>>)),
                                !.pc = "return"]
    /\ UNCHANGED <<mainVars, req, rateVars, indexVars, api, extract, parse>>

\* lines 274-281: the `downloaded` result
FilingReturn ==
    /\ filing.pc = "return"
    /\ filing' = [filing EXCEPT !.result =
                      MkResult("downloaded", "",
                               IF filing.mode = "files" THEN filing.out_dir
                               ELSE filing.tar_path),
                                !.pc = "done"]
    /\ UNCHANGED <<mainVars, req, rateVars, indexVars, api, extract, parse>>

FilingNext ==
    \/ FilingStart
    \/ FilingStageReset
    \/ FilingListing
    \/ FilingGetFile
    \/ FilingCommit
    \/ FilingUpsert
    \/ FilingReturn

SpecFiling == FilingInit /\ [][FilingNext]_vars

(***************************************************************************)
(* The public entry points download_quarter and download_quarter_tar       *)
(* (api.py), as far as they validate their arguments and issue HTTP        *)
(* requests.  gets counts the GETs issued so far; raised names the         *)
(* exception the call ended with, "" while there is none.                  *)
(***************************************************************************)
\* the arguments of one call.  forms is None or a list; user_agent is the
\* string from_env resolves (argument, environment or email.json)
ApiCalls ==
    [fn : {"download_quarter", "download_quarter_tar"},
     year : BOOLEAN, quarter : BOOLEAN,
     forms : [given : BOOLEAN, list : {<<>>, <<Form10Q>>, <<<<"X">>>>}],
     entity : BOOLEAN,
     file_types : {<<>>, <<<<" ">>>>, <<<<"x", "m", "l">>>>},
     user_agent : {<<>>, <<"a">>, <<"a", "@", "b">>},
     tar_provider : {"datamule", "local", "other"}]

ApiInit ==
    /\ MainInit
    /\ concurrency = 1
    /\ tmp_dir = [a \in Acc |-> NoDir]
    /\ req = ReqIdle
    /\ RateIdle
    /\ IndexIdle
    /\ filing = [pc |-> "idle"]
    /\ extract = [pc |-> "idle"]
    /\ parse = [pc |-> "idle"]
    /\ \E call \in ApiCalls :
          /\ ~call.forms.given => call.forms.list = <<>>
          /\ call.fn = "download_quarter" => call.tar_provider = "datamule"
          /\ api = [pc |-> "start", call |-> call, forms |-> call.forms.list,
                    gets |-> 0, raised |-> "", master_path |-> FALSE,
                    quarter_index |-> FALSE, any_error |-> FALSE]

\* the call ends with an exception, or returns
ApiRaise(a, exc) == [a EXCEPT !.pc = "done", !.raised = exc]
ApiReturn(a) == [a EXCEPT !.pc = "done"]

\* SecClient.__init__, line 64 of client.py
UserAgentOk(ua) == ua # <<>> /\ \E i \in DOMAIN ua : ua[i] = "@"

\* validate_forms against the accepted form types
FormsError(forms) ==
    LET requested == SelectSeq(forms, LAMBDA f : Strip(f) # <<>>)
    IN  \/ requested = <<>>
        \/ \E i \in DOMAIN requested :
              Strip(requested[i]) \notin {Form10Q, Form10QA, Form8K}

\* api.py 391-395 and 480-522: the argument checks of the entry point
ApiCheckArgs ==
    /\ api.pc = "start"
    /\ LET c == api.call
           latest_mode == ~c.year /\ ~c.quarter /\ ~c.forms.given
       IN  api' =
             IF latest_mode /\ ~c.entity THEN ApiRaise(api, "ValueError")
             ELSE IF ~latest_mode /\ (~c.year \/ ~c.quarter \/ ~c.forms.given)
                  THEN ApiRaise(api, "ValueError")
             ELSE IF c.fn = "download_quarter"
                  THEN [api EXCEPT !.pc = IF latest_mode THEN "latest" ELSE "downloader"]
             ELSE IF c.tar_provider = "local"
                  THEN IF latest_mode THEN ApiRaise(api, "ValueError")
                       ELSE [api EXCEPT !.pc = "downloader"]
             ELSE IF c.tar_provider # "datamule" THEN ApiRaise(api, "ValueError")
             ELSE [api EXCEPT !.pc = IF latest_mode THEN "latest" ELSE "collect"]
    /\ UNCHANGED <<mainVars, req, rateVars, indexVars, filing, extract, parse>>

\* _collect_latest_row_for_company (api.py 140-173): the client is made and
\* the submissions JSON of the entity is requested
ApiLatestCollect ==
    /\ api.pc = "latest"
    /\ IF ~UserAgentOk(api.call.user_agent)
       THEN api' = ApiRaise(api, "MissingUserAgentError")
       ELSE \E answer \in {"raises", "no_filing", "filing", "filing_without_form"} :
               LET a == [api EXCEPT !.gets = @ + 1]
               IN  api' =
                     CASE answer = "raises" -> ApiRaise(a, "HTTPError")
                       [] answer = "no_filing" -> ApiReturn(a)
                       [] OTHER ->
                            [a EXCEPT !.forms = IF answer = "filing" THEN <<Form8K>>
                                                ELSE <<<<"U", "N", "K", "N", "O", "W", "N">>>>,
                                      !.pc = IF api.call.fn = "download_quarter"
                                             THEN "downloader" ELSE "datamule"]
    /\ UNCHANGED <<mainVars, req, rateVars, indexVars, filing, extract, parse>>

\* _run_with_downloader 94-106 and FilingDownloader.__init__ (downloader.py
\* 91-107): file types, forms and user agent are checked in this order
ApiNewDownloader ==
    /\ api.pc = "downloader"
    /\ api' =
         IF SelectSeq(api.call.file_types, LAMBDA t : Strip(t) # <<>>) = <<>>
         THEN ApiRaise(api, "ValueError")
         ELSE IF FormsError(api.forms) THEN ApiRaise(api, "FormTypeValidationError")
         ELSE IF ~UserAgentOk(api.call.user_agent)
              THEN ApiRaise(api, "MissingUserAgentError")
         ELSE [api EXCEPT !.pc = "run"]
    /\ UNCHANGED <<mainVars, req, rateVars, indexVars, filing, extract, parse>>

\* _run_with_downloader 107-110: the runner makes its first request, the
\* master index (download_quarter raises when it fails) or the folder listing
\* of the latest filing (_download_one returns an error result)
ApiRun ==
    /\ api.pc = "run"
    /\ \E ok \in BOOLEAN :
          api' = IF ~ok /\ api.call.year
                 THEN ApiRaise([api EXCEPT !.gets = @ + 1], "HTTPError")
                 ELSE ApiReturn([api EXCEPT !.gets = @ + 1])
    /\ UNCHANGED <<mainVars, req, rateVars, indexVars, filing, extract, parse>>

\* _collect_matched_rows_for_quarter (api.py 113-137): the master index is
\* downloaded into index/master/{year}/QTR{q} and its path is returned
ApiTarCollect ==
    /\ api.pc = "collect"
    /\ IF FormsError(api.forms) THEN api' = ApiRaise(api, "FormTypeValidationError")
       ELSE IF ~UserAgentOk(api.call.user_agent)
            THEN api' = ApiRaise(api, "MissingUserAgentError")
       ELSE \E answer \in {"raises", "no_rows", "rows"} :
               LET a == [api EXCEPT !.gets = @ + 1]
                   b == [a EXCEPT !.master_path = TRUE, !.quarter_index = TRUE]
               IN  api' =
                     CASE answer = "raises" -> ApiRaise(a, "HTTPError")
                       [] answer = "no_rows" -> ApiReturn(b)
                       [] OTHER -> [b EXCEPT !.pc = "datamule"]
    /\ UNCHANGED <<mainVars, req, rateVars, indexVars, filing, extract, parse>>

\* api.py 553-597: the tars of the rows are requested from the tar endpoint,
\* each request giving a `downloaded` or an `error` result (176-270); then
\* the directory of the master index is removed when there is one (587-595)
ApiDatamule ==
    /\ api.pc = "datamule"
    /\ \E err \in BOOLEAN :
          api' = ApiReturn([api EXCEPT !.gets = @ + 1,
                                       !.any_error = err,
                                       !.quarter_index = IF api.master_path THEN FALSE ELSE @])
    /\ UNCHANGED <<mainVars, req, rateVars, indexVars, filing, extract, parse>>

ApiNext ==
    \/ ApiCheckArgs
    \/ ApiLatestCollect
    \/ ApiNewDownloader
    \/ ApiRun
    \/ ApiTarCollect
    \/ ApiDatamule

SpecApi == ApiInit /\ [][ApiNext]_vars

(***************************************************************************)
(* _safe_extract_tar_to_accession (api.py 282-307): the members of a tar   *)
(* that came from the tar endpoint are written below target_dir.  Member   *)
(* names are strings; paths are absolute, as sequences of components.      *)
(***************************************************************************)
\* target_dir: the directory 01 of the filing, in the directory d
TargetDir == <<<<"d">>, <<"0", "1">>>>

\* a directory name as the tar endpoint puts it before the files: 18 digits
Digits18 == [i \in 1 .. 18 |-> "0"]

\* names a member of the tar may have
MemberNames ==
    { <<"a">>,
      Digits18 \o <<"/", "a">>,
      <<"/", "e", "/", "p">>,
      <<".", "/", "a">>,
      <<".", ".", "/", "z", "/", "e">>,
      <<".", ".", "\\", ".", ".", "\\", "e">>,
      <<".", ".", "/", "0", "1", "x", "/", "e">>,
      Digits18 \o <<"/", ".", ".", "/", "0", "1", "x", "/", "e">>,
      <<".">> }

\* lines 289-297: the parts of a member name, without the leading directory
\* of 18 or 20 digits
MemberParts(name) ==
    LET n == [i \in 1 .. Len(name) |-> IF name[i] = "\\" THEN "/" ELSE name[i]]
        parts == SelectSeq(SplitSlash(n, <<>>), LAMBDA p : p # <<".">>)
        head_norm == IF parts = <<>> THEN <<>>
                     ELSE SelectSeq(Head(parts), LAMBDA c : c # "-")
        isdigit == head_norm # <<>> /\ \A i \in DOMAIN head_norm :
                      head_norm[i] \in {"0", "1", "2", "3", "4", "5", "6", "7", "8", "9"}
    IN  IF Len(parts) > 1 /\ isdigit /\ Len(head_norm) \in {18, 20}
        THEN Tail(parts) ELSE parts

\* Path.resolve() of an absolute path on a disk without symbolic links
RECURSIVE Resolve(_, _)
Resolve(done, rest) ==
    IF rest = <<>> THEN done
    ELSE IF Head(rest) = <<".", ".">>
         THEN Resolve(IF done = <<>> THEN done ELSE SubSeq(done, 1, Len(done) - 1),
                      Tail(rest))
         ELSE Resolve(Append(done, Head(rest)), Tail(rest))

\* str(path) of an absolute path
RECURSIVE PathStr(_)
PathStr(p) == IF p = <<>> THEN <<>> ELSE <<"/">> \o Head(p) \o PathStr(Tail(p))

\* str.startswith
StartsWith(s, prefix) == Len(prefix) <= Len(s) /\ SubSeq(s, 1, Len(prefix)) = prefix

\* lines 298-301: the path a member is written to, or that it is passed over
OutPath(parts) ==
    LET out_path == Resolve(<<>>, TargetDir \o parts)
    IN  [write |-> StartsWith(PathStr(out_path), PathStr(Resolve(<<>>, TargetDir))),
         path |-> out_path]

ExtractInit ==
    /\ MainInit
    /\ concurrency = 1
    /\ tmp_dir = [a \in Acc |-> NoDir]
    /\ req = ReqIdle
    /\ RateIdle
    /\ IndexIdle
    /\ filing = [pc |-> "idle"]
    /\ api = [pc |-> "idle"]
    /\ parse = [pc |-> "idle"]
    /\ \E n \in 1 .. MaxMembers :
          \E ms \in [1 .. n -> [isfile : BOOLEAN, name : MemberNames]] :
             extract = [pc |-> "loop", members |-> ms, pos |-> 1, written |-> {},
                        passed |-> {}]

\* lines 286-307: one round of the loop over the members
ExtractMember ==
    /\ extract.pc = "loop"
    /\ LET m == extract.members[extract.pos]
           parts == MemberParts(m.name)
           out == OutPath(parts)
           e == [extract EXCEPT !.pos = @ + 1,
                                !.pc = IF extract.pos = Len(extract.members)
                                       THEN "done" ELSE "loop"]
       IN  extract' =
             IF ~m.isfile \/ parts = <<>> \/ ~out.write
             THEN [e EXCEPT !.passed = @ \cup {extract.pos}]
             ELSE [e EXCEPT !.written = @ \cup {out.path}]
    /\ UNCHANGED <<mainVars, req, rateVars, indexVars, filing, api, parse>>

SpecExtract == ExtractInit /\ [][ExtractMember]_vars

(***************************************************************************)
(* parse_master_index (index/master.py 61-108), line by line.  A line is   *)
(* described by what the parser tests of it.                               *)
(***************************************************************************)
\* one line of master.idx: whether it starts with the header text (line 72),
\* whether it starts with ---- once stripped (line 76), whether it is empty
\* once stripped (line 80), the number of its |-separated parts (line 83),
\* whether its fourth part is a date (lines 88-90), and the row it gives
MasterLine(kind) ==
    [kind |-> kind,
     is_header |-> kind = "header",
     is_dash |-> kind \in {"dash", "indented_dash"},
     blank |-> kind \in {"empty", "spaces"},
     parts |-> CASE kind \in {"header", "indented_header", "row1", "row2", "bad_date"} -> 5
                 [] kind = "short" -> 4
                 [] OTHER -> 1,
     date_ok |-> kind \in {"row1", "row2"},
     row |-> IF kind = "row2" THEN Row(Cik42, Form10QA, "acc2")
             ELSE Row(Cik7, Form10Q, "acc1")]

MasterLines ==
    {MasterLine(k) : k \in {"text", "header", "indented_header", "dash", "indented_dash",
                            "empty", "spaces", "row1", "row2", "short", "bad_date"}}

ParseInit ==
    /\ MainInit
    /\ concurrency = 1
    /\ tmp_dir = [a \in Acc |-> NoDir]
    /\ req = ReqIdle
    /\ RateIdle
    /\ IndexIdle
    /\ filing = [pc |-> "idle"]
    /\ api = [pc |-> "idle"]
    /\ extract = [pc |-> "idle"]
    /\ \E n \in 0 .. MaxLines :
          \E ls \in [1 .. n -> MasterLines] :
             parse = [pc |-> IF n = 0 THEN "end" ELSE "loop", lines |-> ls, pos |-> 1,
                      saw_header |-> FALSE, in_data |-> FALSE, rows |-> <<>>,
                      raised |-> ""]

\* variant: a dash rule starts the data whether or not the header was seen
ParseLineAnyDash ==
    /\ parse.pc = "loop"
    /\ LET line == parse.lines[parse.pos]
           p == [parse EXCEPT !.pos = @ + 1,
                              !.pc = IF parse.pos = Len(parse.lines) THEN "end" ELSE "loop"]
       IN  parse' =
             IF ~parse.in_data
             THEN IF line.is_header THEN [p EXCEPT !.saw_header = TRUE]
                  ELSE IF line.is_dash THEN [p EXCEPT !.in_data = TRUE]
                  ELSE p
             ELSE IF line.blank THEN p
             ELSE IF line.parts # 5 \/ ~line.date_ok
                  THEN [parse EXCEPT !.raised = "MasterIndexParseError", !.pc = "done"]
             ELSE [p EXCEPT !.rows = Append(@, line.row)]
    /\ UNCHANGED <<mainVars, req, rateVars, indexVars, filing, api, extract>>

\* lines 69-104: one round of the loop over the lines
ParseLine ==
    /\ parse.pc = "loop"
    /\ LET line == parse.lines[parse.pos]
           p == [parse EXCEPT !.pos = @ + 1,
                              !.pc = IF parse.pos = Len(parse.lines) THEN "end" ELSE "loop"]
       IN  parse' =
             IF ~parse.in_data
             THEN IF line.is_header THEN [p EXCEPT !.saw_header = TRUE]
                  ELSE IF parse.saw_header /\ line.is_dash THEN [p EXCEPT !.in_data = TRUE]
                  ELSE p
             ELSE IF line.blank THEN p
             ELSE IF line.parts # 5 \/ ~line.date_ok
                  THEN [parse EXCEPT !.raised = "MasterIndexParseError", !.pc = "done"]
             ELSE [p EXCEPT !.rows = Append(@, line.row)]
    /\ UNCHANGED <<mainVars, req, rateVars, indexVars, filing, api, extract>>

\* lines 106-108: no rows is an error, otherwise the rows are returned
ParseEnd ==
    /\ parse.pc = "end"
    /\ parse' = IF parse.rows = <<>>
                THEN [parse EXCEPT !.raised = "MasterIndexParseError", !.pc = "done"]
                ELSE [parse EXCEPT !.pc = "done"]
    /\ UNCHANGED <<mainVars, req, rateVars, indexVars, filing, api, extract>>

ParseNext == ParseLine \/ ParseEnd

SpecParse == ParseInit /\ [][ParseNext]_vars

(***************************************************************************)
(* Properties.                                                             *)
(***************************************************************************)
Status(a) == result[a].status
ArtifactExists(mode, a) == IF mode = "files" THEN out_dir[a].exists ELSE tar_path[a].exists
\* the strategy the specification gives for an output mode
ExpectedStrategy(mode) == IF mode = "files" THEN "index" ELSE "index_tar"
\* the run in progress repeats, in the same mode, a run that returned with
\* every result `downloaded`
RepeatsGoodRun == last.all_downloaded /\ last.mode = output_format
\* the run in progress follows, in the other mode, a run that returned with
\* every result `downloaded`
SwitchesMode == last.all_downloaded /\ last.mode # output_format

\* C1: idempotence. A run that repeats, in the same mode, a run that ended
\* with every result `downloaded` returns `skipped` for every filing, and no
\* step of it changes a committed artifact (D or T) or the saved manifest.
C1_Idempotence ==
    /\ [](phase = "returned" /\ RepeatsGoodRun => \A a \in Acc : Status(a) = "skipped")
    /\ [][(phase \in {"index", "gather"} /\ RepeatsGoodRun) =>
            (out_dir' = out_dir /\ tar_path' = tar_path
             /\ manifest_disk' = manifest_disk)]_vars

C1_Witness ==
    /\ phase = "returned"
    /\ RepeatsGoodRun
    /\ \A a \in Acc : Status(a) = "skipped" /\ ArtifactExists(output_format, a)

\* C2: mode-switch refetch. A run that follows, in the other mode, a run that
\* ended with every result `downloaded` skips no filing: each filing is fetched
\* again and is `downloaded` (or `error` when the fetch itself fails), and the
\* saved manifest entry carries the strategy of the mode of the accession's
\* most recent commit.
C2_ModeSwitchRefetch ==
    (phase = "returned" /\ SwitchesMode) =>
        \A a \in Acc :
            /\ Status(a) \in {"downloaded", "error"}
            /\ Status(a) = "downloaded" => manifest_disk[a] = ExpectedStrategy(output_format)
            /\ Status(a) = "error" => manifest_disk[a] = ExpectedStrategy(last.mode)

C2_Witness ==
    /\ phase = "returned"
    /\ SwitchesMode
    /\ output_format = "tar"
    /\ \A a \in Acc : Status(a) = "downloaded" /\ manifest_disk[a] = "index_tar"

\* C3: when a run returns, every filing it reports `downloaded` has its artifact
\* at the canonical path of the output mode and a manifest entry (in memory and
\* saved) whose strategy is the one of the output mode.
C3_DownloadedIsCommitted ==
    phase = "returned" =>
        \A a \in Acc :
            Status(a) = "downloaded" =>
                /\ ArtifactExists(output_format, a)
                /\ manifest[a] = ExpectedStrategy(output_format)
                /\ manifest_disk[a] = ExpectedStrategy(output_format)

C3_Witness ==
    /\ phase = "returned"
    /\ output_format = "tar"
    /\ \E a \in Acc : Status(a) = "downloaded" /\ tar_path[a].exists
    /\ \E a \in Acc : Status(a) = "error"

\* C4: quarter cache policy. When a run returns, the quarter index cache exists
\* if and only if some result is `error`.
C4_CachePolicy ==
    phase = "returned" =>
        ((\E a \in Acc : Status(a) = "error") <=> cache # "absent")

C4_Witness ==
    /\ phase = "returned"
    /\ \E a \in Acc : Status(a) = "error"
    /\ \E a \in Acc : Status(a) = "downloaded"
    /\ cache = "file"

\* C5: a task that ends with `error` leaves the manifest entry of its accession
\* as the task found it (absent stays absent, an older entry is kept), also in
\* the manifest the run saves, and its result carries the error message.
C5_ErrorLeavesManifest ==
    \A t \in Acc :
        (pc[t] = "done" /\ Status(t) = "error") =>
            /\ manifest[t] = entry[t]
            /\ phase = "returned" => manifest_disk[t] = entry[t]
            /\ result[t].error \notin {"", "none"}

C5_Witness ==
    \E t \in Acc :
        /\ phase = "returned"
        /\ Status(t) = "error"
        /\ entry[t] = "index"
        /\ manifest_disk[t] = "index"

\* C6: two-state artifacts. In every state, D of an accession is absent or holds
\* exactly the files selected by the commit that produced it, and T is absent
\* or is the archive of the selection of the commit that produced it.
C6_TwoStateArtifacts ==
    \A a \in Acc :
        /\ out_dir[a].exists =>
              (out_sel[a] # <<>> /\ out_dir[a].files = Range(out_sel[a]))
        /\ tar_path[a].exists =>
              (tar_sel[a] # <<>> /\ tar_path[a] = Tar(<<NameMeta>> \o tar_sel[a], tar_sel[a]))

C6_Witness ==
    \E a, b \in Acc :
        /\ out_dir[a].exists
        /\ pc[b] = "download"
        /\ idx[b] = 2
        /\ tmp_dir[b] = Dir({NameA})
        /\ ~out_dir[b].exists

\* C7 as stated: after a task has returned with any status, neither D.tmp nor
\* T.tmp of its accession exists.
C7_TmpGoneAfterAnyStatus ==
    \A t \in Acc : pc[t] = "done" => (~tmp_dir[t].exists /\ ~tmp_tar[t].exists)

\* C7 amended: after a task has returned `downloaded` or `error`, neither D.tmp
\* nor T.tmp of its accession exists, also when stale ones were there before.
C7_TmpGoneAfterFetch ==
    \A t \in Acc :
        (pc[t] = "done" /\ Status(t) \in {"downloaded", "error"}) =>
            (~tmp_dir[t].exists /\ ~tmp_tar[t].exists)

\* (in the first run the stale staging paths are there for every accession or
\* for none: the one still waiting shows that the one that failed had them)
C7_Witness ==
    \E t, u \in Acc :
        /\ run = 1
        /\ pc[t] = "done" /\ Status(t) = "error"
        /\ ~tmp_dir[t].exists /\ ~tmp_tar[t].exists
        /\ pc[u] = "new"
        /\ tmp_dir[u] = StaleDir /\ tmp_tar[u] = StaleTar

\* C8: once a cancelled run has unwound, no task that was cancelled while it
\* waited for the listing or for a file has left its D.tmp or T.tmp on disk.
C8_CancelLeavesNoTmp ==
    phase = "cancelled" =>
        \A t \in Acc : pc[t] = "cancelled" => (~tmp_dir[t].exists /\ ~tmp_tar[t].exists)

\* C9: cancellation commits nothing. From the cancellation on, no step changes
\* D, T or the manifest (in memory or saved), and a run that ends cancelled has
\* made no save of the manifest.
C9_CancelCommitsNothing ==
    [][/\ phase = "unwinding" =>
             (out_dir' = out_dir /\ tar_path' = tar_path /\ manifest' = manifest
              /\ manifest_disk' = manifest_disk)
       /\ phase' = "cancelled" => (saves' = 0 /\ manifest_disk' = manifest_disk)]_vars

C9_Witness ==
    /\ phase = "cancelled"
    /\ \E t \in Acc : pc[t] = "cancelled"
    /\ \E t \in Acc : Status(t) = "downloaded" /\ manifest[t] # manifest_disk[t]

\* C10: a 4xx response other than 429 is surfaced immediately. When the latest
\* GET of a request was answered 4xx (not 429), the request has raised, and it
\* did so without sleeping.
Is4xxNot429(resp) ==
    resp.kind = "http" /\ resp.status >= 400 /\ resp.status < 500 /\ resp.status # 429

C10_SurfacedImmediately ==
    (req.gets >= 1 /\ Is4xxNot429(req.last_resp)) =>
        (req.state = "raised" /\ req.last_sleep = 0)

\* the error _request records for a failed attempt, by what the GET produced
RecordedFor(resp) ==
    CASE resp.kind = "timeout" -> "TimeoutException"
      [] resp.kind = "network" -> "NetworkError"
      [] resp.status = 429 -> "RateLimitedError"
      [] resp.status >= 500 /\ resp.status < 600 -> "HTTPStatusError: server error"
      [] OTHER -> "HTTPStatusError: client error"

\* C11: retry budget. Whatever the server answers, one request issues at most
\* max_retries GETs and has ended (returned or raised) once it has issued that
\* many; it raises only after max_retries failed attempts, and the error it
\* raises is the one recorded for the last attempt.
C11_RetryBudget ==
    /\ req.gets <= max_retries
    /\ req.state = "running" => (req.attempt <= max_retries /\ req.gets = req.attempt - 1)
    /\ req.gets = max_retries => req.state \in {"returned", "raised"}
    /\ req.state = "raised" =>
          /\ req.gets = max_retries
          /\ req.last_exc = RecordedFor(req.last_resp)

C11_Witness ==
    /\ req.state = "raised"
    /\ req.gets = max_retries
    /\ req.last_resp = TimedOut
    /\ req.last_exc = "TimeoutException"

IsTransient(resp) ==
    \/ resp.kind \in {"timeout", "network"}
    \/ resp.kind = "http" /\ (resp.status = 429 \/ (resp.status >= 500 /\ resp.status < 600))
Is2xx(resp) == resp.kind = "http" /\ resp.status >= 200 /\ resp.status < 300
TransientResponses == {r \in Responses : IsTransient(r)}

\* C12: transient failures are retried. A GET answered 2xx ends the request
\* with that response after as many GETs as attempts and one sleep per failed
\* attempt; a transient failure (429, 5xx, timeout, transport error) before
\* the last attempt leaves the request running with the next attempt due, so
\* that no error reaches the caller before exhaustion. Run against j transient
\* failures (j < max_retries) followed by 200, the whole request returns after
\* exactly j + 1 GETs; 429 with Retry-After 1 then 200 is one retry.
C12_TransientRetried ==
    /\ (req.gets >= 1 /\ Is2xx(req.last_resp)) =>
          (req.state = "returned" /\ req.gets = req.attempt /\ req.sleeps = req.gets - 1)
    /\ (req.gets >= 1 /\ req.gets < max_retries /\ IsTransient(req.last_resp)) =>
          (req.state = "running" /\ req.attempt = req.gets + 1)
    /\ req.state = "raised" => req.gets = max_retries
    /\ \A r \in TransientResponses, j \in 0 .. max_retries - 1 :
          Request(Repeat(r, j) \o <<Ok200>>) =
              [kind |-> "return", exc |-> "none", gets |-> j + 1, sleeps |-> j]

\* one 429 with Retry-After: 1, then 200
C12_Witness ==
    /\ req.state = "returned"
    /\ req.gets = 2
    /\ req.sleeps = 1
    /\ req.last_exc = "RateLimitedError"
    /\ req.last_resp = Ok200

\* C13: rate bound. Any two GET starts are at least as many intervals apart as
\* there are starts between them: k consecutive starts span at least
\* (k - 1) * interval, whichever callers they come from; a caller that sleeps
\* inside the limiter holds its lock, and the limiter's next slot is at least
\* one interval after the latest start.
C13_RateBound ==
    /\ \A i, j \in 1 .. Len(starts) :
          i < j => starts[j] - starts[i] >= (j - i) * limiter.interval
    /\ \A c \in Callers : waiters[c].pc = "sleeping" <=> limiter.lock = c
    /\ starts # <<>> => limiter.next_time >= starts[Len(starts)] + limiter.interval

C13_Witness ==
    /\ limiter.interval = 2
    /\ Len(starts) >= 3
    /\ starts[2] - starts[1] = 2
    /\ starts[3] - starts[2] > 2
    /\ \E c, d \in Callers : waiters[c].pc = "sleeping" /\ waiters[d].pc = "in_flight"

\* the tasks that hold a permit of the semaphore: they are inside
\* `async with sem`, waiting at an await of the filing fetch
Holders == {t \in Acc : pc[t] \in {"listing", "download"}}

\* C14: bounded parallelism. At every moment the number of tasks between the
\* acquire and the release of the semaphore is at most `concurrency`, which is
\* at least 1; the free permits and in_progress account for exactly these tasks.
C14_BoundedParallelism ==
    /\ concurrency >= 1
    /\ Cardinality(Holders) <= concurrency
    /\ sem = concurrency - Cardinality(Holders)
    /\ in_progress = Cardinality(Holders)

C14_Witness ==
    /\ phase = "gather"
    /\ concurrency = 1
    /\ sem = 0
    /\ \E t, u \in Acc : pc[t] = "download" /\ pc[u] = "new"

\* C15: progress callbacks are monotone. While a run is under way, `completed`
\* never decreases, every call of the observer passes the value `completed`
\* has at that moment, and the value passed never decreases from one call to
\* the next. (The calls are made one at a time: each is a plain call inside a
\* step of one task, with no await between taking and releasing the mutex.)
C15_ProgressMonotone ==
    [][(phase \in {"gather", "unwinding"}
        /\ phase' \in {"gather", "unwinding", "returned", "cancelled"}) =>
          /\ completed' >= completed
          /\ on_progress'.completed >= on_progress.completed
          /\ on_progress' # on_progress => on_progress'.completed = completed']_vars

C15_Witness ==
    /\ phase = "gather"
    /\ completed = 1
    /\ on_progress = [completed |-> 1, in_progress |-> 1]
    /\ \E t, u \in Acc : pc[t] = "done" /\ pc[u] = "download"

\* C16: result order. The list a run returns has one result per matched row
\* and result i carries the accession (and entity ID and form) of matched row
\* i, in whatever order the tasks ended.
C16_ResultsInRowOrder ==
    ix_pc = "returned" =>
        /\ Len(result_list) = Len(matched)
        /\ \A i \in 1 .. Len(matched) :
              /\ result_list[i].accession = matched[i].accession
              /\ result_list[i].cik = matched[i].cik
              /\ result_list[i].form_type = matched[i].form_type
              /\ result_list[i].status \in {"downloaded", "skipped", "error"}

\* the task of the second row ended before the task of the first
C16_Witness ==
    /\ ix_pc = "returned"
    /\ done_order = <<2, 1>>
    /\ Len(result_list) = 2
    /\ result_list[1].accession = matched[1].accession
    /\ result_list[1].accession # result_list[2].accession

\* a step of the task of filing t
TaskStep(t) == TaskStart(t) \/ TaskListing(t) \/ TaskDownload(t)

\* C17: error isolation. A failure of one filing ends that filing's task with
\* an `error` result that carries the message; the run does not raise because
\* of it (a run raises only from the index fetch, before any task has run);
\* while a filing has failed and others have not ended, one of them can take
\* its next step; and a run that returns has a result for every filing.
C17_ErrorIsolation ==
    /\ \A t \in Acc : Status(t) = "error" => (pc[t] = "done" /\ result[t].error # "")
    /\ phase = "raised" => \A t \in Acc : pc[t] = "new" /\ Status(t) = "none"
    /\ (phase = "gather" /\ \E t \in Acc : Status(t) = "error") =>
          \/ \A u \in Acc : pc[u] = "done"
          \/ \E u \in Acc : pc[u] # "done" /\ ENABLED TaskStep(u)
    /\ phase = "returned" =>
          \A t \in Acc : pc[t] = "done" /\ Status(t) \in {"downloaded", "skipped", "error"}

C17_Witness ==
    \E t, u \in Acc :
        /\ phase = "returned"
        /\ Status(t) = "error"
        /\ result[t].error = "DownloadError: no files matched"
        /\ Status(u) = "downloaded"
        /\ out_dir[u].exists

\* line of the index on which an accession occurs first
FirstLine(a) ==
    CHOOSE k \in 1 .. Len(index_rows) :
        /\ index_rows[k].accession = a
        /\ \A m \in 1 .. k - 1 : index_rows[m].accession # a

\* C18: deduplication. No accession occurs twice in the list a run returns,
\* and the result of an accession carries the entity ID and form of the first
\* line of the index that lists the accession.
C18_Deduplicated ==
    ix_pc = "returned" =>
        /\ \A i, j \in 1 .. Len(result_list) :
              i # j => result_list[i].accession # result_list[j].accession
        /\ \A i \in 1 .. Len(result_list) :
              /\ \E k \in 1 .. Len(index_rows) :
                    index_rows[k].accession = result_list[i].accession
              /\ result_list[i].cik = index_rows[FirstLine(result_list[i].accession)].cik
              /\ result_list[i].form_type =
                    index_rows[FirstLine(result_list[i].accession)].form_type

\* one accession on two lines that both pass the filter, under two entity IDs
C18_Witness ==
    /\ ix_pc = "returned"
    /\ Len(index_rows) = 3
    /\ index_rows[1] = Row(Cik7, Form10Q, "acc1")
    /\ index_rows[2] = Row(Cik42, Form10Q, "acc1")
    /\ flt.cik_set = {}
    /\ Len(result_list) = 2
    /\ result_list[1].cik = Cik7

\* C19: selection soundness. Every result of a run has an accession that
\* occurs in the parsed index and a form type that is one of the requested
\* forms and, unless include_amended is set, does not contain "/A".
C19_SelectionSound ==
    ix_pc = "returned" =>
        \A i \in 1 .. Len(result_list) :
            /\ \E k \in 1 .. Len(index_rows) :
                  index_rows[k].accession = result_list[i].accession
            /\ result_list[i].form_type \in flt.forms
            /\ ~flt.include_amended => ~Contains(result_list[i].form_type, <<"/", "A">>)

\* an amendment is listed and its form was asked for, without include_amended
C19_Witness ==
    /\ ix_pc = "returned"
    /\ Form10QA \in flt.forms
    /\ ~flt.include_amended
    /\ \E k \in 1 .. Len(index_rows) : index_rows[k].form_type = Form10QA
    /\ Len(result_list) >= 1

\* the form/amendment filter and the entity filter, as the claim reads them
PassesForms(row) ==
    /\ row.form_type \in flt.forms
    /\ flt.include_amended \/ ~Contains(row.form_type, <<"/", "A">>)
PassesEntity(row) == flt.cik_set = {} \/ ZFill(row.cik, cik_width) \in flt.cik_set

\* C20: selection completeness. For every line of the index whose form passes
\* the form/amendment filter and whose entity ID passes the entity filter, the
\* list a run returns has a result for the accession of that line.
C20_SelectionComplete ==
    ix_pc = "returned" =>
        \A k \in 1 .. Len(index_rows) :
            (PassesForms(index_rows[k]) /\ PassesEntity(index_rows[k])) =>
                \E i \in 1 .. Len(result_list) :
                    result_list[i].accession = index_rows[k].accession

\* C21: entity filter. When the allow-set of entity IDs is not empty, a row
\* gets a task only if its entity ID, zero-padded to ten digits, is in the
\* allow-set; no task, no task result and no returned result belongs to a
\* row of another entity.
C21_EntityFilter ==
    flt.cik_set # {} =>
        /\ \A i \in 1 .. Len(matched) : ZFill(matched[i].cik, cik_width) \in flt.cik_set
        /\ Len(task_result) = Len(matched)
        /\ \A i \in 1 .. Len(task_result) :
              task_result[i] # NoRowResult => task_result[i].cik = matched[i].cik
        /\ \A i \in 1 .. Len(result_list) :
              ZFill(result_list[i].cik, cik_width) \in flt.cik_set

\* the index lists a filing of another entity whose form is asked for, next
\* to one of the allowed entity, and the run returns the allowed one only
C21_Witness ==
    /\ ix_pc = "returned"
    /\ flt.cik_set = {ZFill(Cik42, cik_width)}
    /\ \E k \in 1 .. Len(index_rows) :
          /\ index_rows[k].cik = Cik7
          /\ index_rows[k].form_type = Form10Q
          /\ \A j \in 1 .. Len(index_rows) :
                index_rows[j].accession = index_rows[k].accession => j = k
    /\ Len(result_list) = 1
    /\ result_list[1].cik = Cik42

\* the names of the listing's files whose lower-cased name ends with a
\* configured extension, as a set and in listing order
Wanted(it) ==
    /\ it.kind = "dict"
    /\ it.name # <<>>
    /\ \E ext \in file_types : EndsWith(Lower(it.name), ext)
WantedNames(payload) == {payload.items[i].name : i \in {j \in DOMAIN payload.items : Wanted(payload.items[j])}}
WantedSeq(payload) ==
    LET w == SelectSeq(payload.items, Wanted) IN [i \in 1 .. Len(w) |-> w[i].name]

\* C23: in files mode, the directory D of a filing that was `downloaded`
\* holds exactly the files of the folder listing whose lower-cased name ends
\* with a configured extension: no unselected file of the listing, no file
\* of a stale D.tmp and no file of the D that was there before.
C23_FilesExact ==
    (filing.pc = "done" /\ filing.mode = "files" /\ filing.result.status = "downloaded") =>
        /\ filing.D.exists
        /\ filing.D.files = WantedNames(filing.listing)
        /\ ~filing.Dtmp.exists

\* D and a stale D.tmp held other files, and the listing has a file that is
\* not selected next to the selected ones
C23_Witness ==
    /\ filing.pc = "done"
    /\ filing.mode = "files"
    /\ filing.result.status = "downloaded"
    /\ filing.before.D = Dir({NameStale, NameR})
    /\ filing.before.Dtmp = StaleDir
    /\ \E i \in DOMAIN filing.listing.items : filing.listing.items[i] = ItemFile(NameR)
    /\ filing.D.files = {NameA, NameB}

\* C24: in tar mode, the archive T of a filing that was `downloaded` has
\* metadata.json as its first member, then exactly the selected files of the
\* listing in listing order, as flat top-level members; the `files` list of
\* metadata.json is the list of the member names after it.
C24_TarExact ==
    (filing.pc = "done" /\ filing.mode = "tar" /\ filing.result.status = "downloaded") =>
        /\ filing.T.exists
        /\ Len(filing.T.members) >= 2
        /\ Head(filing.T.members) = NameMeta
        /\ Tail(filing.T.members) = WantedSeq(filing.listing)
        /\ filing.T.meta_files = Tail(filing.T.members)
        /\ \A i \in DOMAIN filing.T.members :
              \A k \in DOMAIN filing.T.members[i] : filing.T.members[i][k] # "/"

\* an archive of other files was there, and the listing has a file that is
\* not selected between the selected ones
C24_Witness ==
    /\ filing.pc = "done"
    /\ filing.mode = "tar"
    /\ filing.result.status = "downloaded"
    /\ filing.before.T.exists
    /\ filing.listing.items = <<ItemFile(NameA), ItemFile(NameR), ItemFile(NameB)>>
    /\ filing.T.members = <<NameMeta, NameA, NameB>>

\* C26: the tar path of a filing is {data}/filings_tar/{form_dir}/{cik10}/
\* {accession}.tar, form_dir being form_dir_name of the form type, so that
\* for every form type the tar path has as many components as the path of
\* the filing's directory in the files tree.
C26_TarPathUsesFormDir ==
    filing.pc \notin {"idle", "new"} =>
        /\ filing.tar_path =
              DataDir \o <<<<"f", "t">>, form_dir_name(filing.row.form_type),
                           ZFill(filing.row.cik, cik_width),
                           filing.row.accession \o <<".", "t", "a", "r">>>>
        /\ Len(filing.tar_path) = Len(filing.out_dir)

\* the manifest had an entry of the strategy of the output mode, and the
\* artifact of the output mode was on disk, when the task began
HadEntryAndArtifact ==
    /\ filing.before.manifest = ExpectedStrategy(filing.mode)
    /\ IF filing.mode = "files" THEN filing.before.D.exists ELSE filing.before.T.exists

\* C27: idempotence check. A per-filing task returns `skipped` if and only if
\* the manifest has an entry of the accession whose strategy is that of the
\* output mode and the artifact of the output mode exists; with no entry,
\* another strategy or no artifact the task goes on to stage reset and then
\* requests the listing.
C27_SkipIff ==
    filing.pc \notin {"idle", "new"} =>
        /\ filing.result.status = "skipped" <=> HadEntryAndArtifact
        /\ HadEntryAndArtifact => filing.pc = "done" /\ filing.log = <<>>
        /\ ~HadEntryAndArtifact =>
              \/ filing.pc = "reset"
              \/ /\ filing.log # <<>>
                 /\ filing.log[1].op = "stage_reset"
                 /\ filing.pc # "listing" => filing.log[2].op = "get_json"

\* the entry has the strategy of the output mode and the artifact is gone:
\* the filing is fetched again
C27_Witness ==
    /\ filing.pc = "done"
    /\ filing.before.manifest = ExpectedStrategy(filing.mode)
    /\ ~HadEntryAndArtifact
    /\ filing.result.status = "downloaded"

\* the effects of a task that fetched the files of `sel`, in protocol order
RECURSIVE FetchLog(_)
FetchLog(sel) ==
    IF sel = <<>> THEN <<>>
    ELSE <<Did("get_bytes", Head(sel)), Did("write", Head(sel))>> \o FetchLog(Tail(sel))
ProtocolLog(sel) ==
    <<Did("stage_reset", <<>>), Did("get_json", <<>>)>> \o FetchLog(sel)
        \o <<Did("commit", <<>>), Did("upsert", <<>>)>>
IsPrefix(s, t) == Len(s) <= Len(t) /\ s = SubSeq(t, 1, Len(s))

\* C29: protocol order of a task that is not skipped. Stage reset comes
\* before the listing request, every selected file is fetched and written
\* to D.tmp before the commit, the commit before the manifest upsert, and
\* the upsert before the `downloaded` result: at every moment the effects
\* made so far are a beginning of that order, D.tmp holds every selected
\* file when the commit is due, the artifact is in place when the upsert is
\* due, and a task that returned `downloaded` has made all of them.
C29_ProtocolOrder ==
    filing.pc \notin {"idle", "new"} =>
        /\ IsPrefix(filing.log, ProtocolLog(filing.selected))
        /\ filing.pc = "listing" => filing.Dtmp = Dir({}) /\ ~filing.Ttmp.exists
        /\ filing.pc = "commit" => filing.Dtmp = Dir(Range(filing.selected))
        /\ filing.pc \in {"upsert", "return"} =>
              IF filing.mode = "files"
              THEN filing.D = Dir(Range(filing.selected))
              ELSE filing.T.exists /\ filing.T.meta_files = filing.selected
        /\ filing.pc = "return" => filing.manifest = ExpectedStrategy(filing.mode)
        /\ filing.result.status = "downloaded" =>
              /\ filing.log = ProtocolLog(filing.selected)
              /\ filing.manifest = ExpectedStrategy(filing.mode)

\* a task fetched two files and returned `downloaded`, where a stale D.tmp
\* and another manifest entry had been
C29_Witness ==
    /\ filing.pc = "done"
    /\ filing.result.status = "downloaded"
    /\ Len(filing.selected) = 2
    /\ filing.before.Dtmp = StaleDir
    /\ filing.before.manifest # "none"
    /\ filing.before.manifest # filing.manifest

\* C30: empty selection. When the folder listing is well formed and has no
\* file whose name matches a configured extension (directory.item: []
\* included), the task returns an error, requests no file, leaves D, T and
\* the manifest entry of the accession as they were, and the staging paths
\* are gone.
C30_EmptySelection ==
    (filing.pc = "done" /\ filing.listing.shape = "ok"
        /\ WantedNames(filing.listing) = {}) =>
        /\ filing.result.status = "error"
        /\ filing.result.error = "DownloadError: no files matched"
        /\ \A k \in DOMAIN filing.log : filing.log[k].op \notin {"get_bytes", "write", "commit", "upsert"}
        /\ filing.D = filing.before.D
        /\ filing.T = filing.before.T
        /\ filing.manifest = filing.before.manifest
        /\ ~filing.Dtmp.exists /\ ~filing.Ttmp.exists

\* the listing is directory.item: [], and D, T and a manifest entry of the
\* other mode were there
C30_Witness ==
    /\ filing.pc = "done"
    /\ filing.listing = Payload("ok", <<>>)
    /\ filing.result.status = "error"
    /\ filing.before.D.exists
    /\ filing.before.T.exists
    /\ filing.before.manifest = "index_tar"
    /\ filing.mode = "files"

\* C28: manifest persistence ordering. A quarter run saves the manifest at
\* most once; it has saved it exactly once when it returns; the save is made
\* when every task has finished and before the quarter cache is cleaned up;
\* and the saved manifest has the entry of every filing whose result is
\* `downloaded`, however the tasks interleaved.
C28_SavedOnceAfterTasks ==
    /\ saves <= 1
    /\ phase \in {"index", "gather", "unwinding", "cancelled", "raised"} => saves = 0
    /\ phase \in {"saved", "returned"} =>
          /\ saves = 1
          /\ \A t \in Acc : pc[t] = "done"
          /\ manifest_disk = manifest
          /\ \A a \in Acc :
                Status(a) = "downloaded" => manifest_disk[a] = ExpectedStrategy(output_format)
    /\ phase = "saved" => cache # "absent"
    /\ (phase # "init" /\ cache = "absent") => (phase = "returned" /\ saves = 1)

\* two tasks ran side by side, both committed, and the run returned
C28_Witness ==
    /\ phase = "returned"
    /\ concurrency = 2
    /\ on_progress.in_progress = 0
    /\ \A a \in Acc : Status(a) = "downloaded"
    /\ \A a \in Acc : manifest_disk[a] = ExpectedStrategy(output_format)
    /\ saves = 1
    /\ cache = "absent"

\* the call ended with an error of its configuration: a ValueError of the
\* argument or file-type checks, a form error of the forms argument, or a
\* missing or malformed user agent
ConfigErrorRaised ==
    \/ api.raised = "ValueError"
    \/ api.raised = "FormTypeValidationError" /\ api.call.forms.given
    \/ api.raised = "MissingUserAgentError"

\* C22: a configuration error (empty file-extension list, unknown or empty
\* form set, invalid tar provider, missing or malformed user agent, mixed
\* year/quarter/forms arguments) ends the call of a public entry point
\* before any HTTP request is issued, latest-filing mode included.
C22_ConfigErrorsBeforeHttp ==
    (api.pc = "done" /\ ConfigErrorRaised) => api.gets = 0

\* the path lies in the directory or below it
IsBelow(path, dir) == Len(path) >= Len(dir) /\ SubSeq(path, 1, Len(dir)) = dir

\* C25: safe extraction. Every file the extraction writes lies inside the
\* target directory after normalisation; a member whose normalised path is
\* outside of it, a sibling directory whose name begins with the name of the
\* target directory included, is passed over.
C25_SafeExtraction ==
    extract.pc \in {"loop", "done"} =>
        \A p \in extract.written : IsBelow(p, TargetDir)

\* the listing has the shape the folder index documents: every element of
\* directory.item is an object with a non-empty name
WellFormedListing(payload) ==
    /\ payload.shape = "ok"
    /\ \A i \in 1..Len(payload.items) :
           payload.items[i].kind = "dict" /\ payload.items[i].name # <<>>

\* C31: strict listing validation. A filing whose listing payload is not an
\* object with directory.item an array of objects that each carry a
\* non-empty name ends with status error; it is never committed from the
\* well-formed items that remain.
C31_ListingValidated ==
    (filing.pc = "done" /\ filing.listing.shape = "ok"
        /\ ~WellFormedListing(filing.listing))
        => filing.result.status = "error"

\* position of the first header line, and of the first dash rule after it;
\* 0 when there is none
FirstHeader(ls) ==
    LET hs == {i \in 1 .. Len(ls) : ls[i].is_header}
    IN  IF hs = {} THEN 0 ELSE CHOOSE i \in hs : \A j \in hs : i <= j
FirstRule(ls) ==
    LET h == FirstHeader(ls)
        ds == {i \in 1 .. Len(ls) : h > 0 /\ i > h /\ ls[i].is_dash}
    IN  IF ds = {} THEN 0 ELSE CHOOSE i \in ds : \A j \in ds : i <= j

\* the non-blank lines after the first dash rule that follows the header
DataLines(ls) ==
    LET r == FirstRule(ls)
        numbered == [i \in 1 .. Len(ls) |-> [pos |-> i, line |-> ls[i]]]
        kept == SelectSeq(numbered, LAMBDA x : r > 0 /\ x.pos > r /\ ~x.line.blank)
    IN  [k \in 1 .. Len(kept) |-> kept[k].line]

\* C32: master index parser. When the parser returns, its rows are exactly
\* the non-blank lines after the first dash rule that follows the header
\* line, in order; lines before the header, the header, a dash rule before
\* the header and blank lines give no row. When there is no such line, an
\* index with header and dash rule but no data line included, the parser
\* fails with MasterIndexParseError.
C32_ParserRows ==
    parse.pc = "done" =>
        LET data == DataLines(parse.lines)
        IN  /\ data = <<>> => parse.raised = "MasterIndexParseError"
            /\ parse.raised = "" =>
                   /\ data # <<>>
                   /\ parse.rows = [k \in 1 .. Len(data) |-> data[k].row]
            /\ (data # <<>> /\ \A k \in 1 .. Len(data) : data[k].parts = 5 /\ data[k].date_ok)
                   => parse.raised = ""

C32_Witness ==
    /\ parse.pc = "done"
    /\ parse.raised = ""
    /\ Len(parse.lines) = 4
    /\ parse.lines[1].is_dash
    /\ parse.lines[2].is_header
    /\ Len(parse.rows) = 1

\* the accession of an index row, as characters
AccessionChars(a) == IF a = "acc1" THEN <<"0", "1">> ELSE <<"0", "2">>

\* D, D.tmp, T and T.tmp of the task of a row
TaskPaths(row, label) ==
    LET od == filing_dir(row.form_type, row.cik, AccessionChars(row.accession), label)
        tp == FilingTarPath(row.form_type, row.cik, AccessionChars(row.accession))
    IN  {od, TmpDirOf(od), tp, TmpTarOf(tp)}

\* C33: the paths of distinct scheduled filings are disjoint. For any two
\* tasks of one run, none of D, D.tmp, T and T.tmp of the one equals or
\* contains any of those of the other, with or without a group label.
C33_PathsDisjoint ==
    ix_pc # "start" =>
        \A i, j \in 1 .. Len(matched) : i # j =>
            \A label \in {<<>>, <<"G">>} :
                \A p \in TaskPaths(matched[i], label), q \in TaskPaths(matched[j], label) :
                    ~IsBelow(p, q)

C33_Witness ==
    /\ ix_pc = "gather"
    /\ Len(matched) = 2
    /\ matched[1].cik = matched[2].cik
    /\ matched[1].form_type = matched[2].form_type
    /\ matched[1].accession # matched[2].accession

\* C34: in the mirror-tar run (tar_provider datamule) a result with status
\* error suppresses the cleanup of the quarter-index cache: after a run in
\* which a filing errored, the directory index/master/{year}/QTR{q} is
\* still there.
C34_ErrorKeepsIndexCache ==
    (api.pc = "done" /\ api.call.fn = "download_quarter_tar"
        /\ api.call.tar_provider = "datamule" /\ api.master_path /\ api.any_error)
        => api.quarter_index

\* what the disk and the manifest hold for the filing
FilingDisk(f) == [D |-> f.D, Dtmp |-> f.Dtmp, T |-> f.T, Ttmp |-> f.Ttmp,
                  manifest |-> f.manifest]

\* C35: a skipped filing has no effect. A task that returns skipped has
\* issued no HTTP request (and so has waited for no rate-limit permit), has
\* created, removed and renamed no path, a stale staging path included, and
\* has left the manifest as it was.
C35_SkippedNoEffect ==
    filing.result.status = "skipped" =>
        /\ filing.log = <<>>
        /\ FilingDisk(filing) = filing.before

C35_Witness ==
    /\ filing.pc = "done"
    /\ filing.result.status = "skipped"
    /\ filing.before.Dtmp.exists
    /\ filing.before.Ttmp.exists

\* C36: a failed re-fetch keeps the earlier commit. When a filing fails
\* while its listing is requested or parsed, its files are selected or
\* downloaded, the artifact committed earlier at D or T is unchanged.
C36_ErrorKeepsArtifact ==
    filing.result.status = "error" =>
        /\ filing.D = filing.before.D
        /\ filing.T = filing.before.T

C36_Witness ==
    /\ filing.pc = "done"
    /\ filing.result.status = "error"
    /\ filing.before.D.exists
    /\ filing.before.T.exists
    /\ \E i \in DOMAIN filing.log : filing.log[i].op = "write"

\* C37: resume after a partial failure. A run that returned with some
\* results downloaded and others error has saved the manifest entries of
\* its successes, so the run that repeats it in the same mode returns
\* skipped for every filing the earlier run downloaded and issues HTTP
\* requests only for the filings that failed.
C37_ResumeAfterPartialFailure ==
    (phase \in {"gather", "saved", "returned"} /\ last.mode = output_format) =>
        \A a \in last.downloaded :
            /\ pc[a] \in {"new", "done"}
            /\ pc[a] = "done" => Status(a) = "skipped"

C37_Witness ==
    /\ phase = "returned"
    /\ last.mode = output_format
    /\ ~last.all_downloaded
    /\ \E a \in last.downloaded, b \in Acc \ last.downloaded :
          Status(a) = "skipped" /\ Status(b) = "downloaded"

\* C38: termination and release of resources. A run whose tasks exist ends
\* by returning (every HTTP request ending, the run being neither cancelled
\* nor killed); when it returns every permit of the semaphore has been
\* released, in_progress is 0 and completed is the number of rows.
C38_RunReturns ==
    /\ [](phase = "returned" =>
            /\ sem = concurrency
            /\ in_progress = 0
            /\ completed = NTasks)
    /\ (phase = "gather") ~> (phase = "returned")

C38_Witness ==
    /\ phase = "returned"
    /\ concurrency = 1
    /\ \E a, b \in Acc : Status(a) = "error" /\ Status(b) = "downloaded"

\* the tasks that end in the step
EndedInStep == {t \in Acc : pc[t] # "done" /\ pc'[t] = "done"}

\* C39: progress accounting. At every call of the observer in_progress is
\* between 0 and the concurrency and completed + in_progress is at most the
\* number of rows N, the call made by a task that is skipped at once
\* included; while the tasks run, the observer is called with a result once
\* for each task that ends, each call raising completed by one, so that N
\* calls carry a result, each of another accession; when the run returns
\* the last call has reported completed = N and in_progress = 0.
C39_ProgressAccounting ==
    /\ [](/\ on_progress.in_progress \in 0 .. concurrency
          /\ on_progress.completed >= 0
          /\ on_progress.completed + on_progress.in_progress <= NTasks)
    /\ [][(phase = "gather" /\ phase' = "gather") =>
            /\ Cardinality(EndedInStep) <= 1
            /\ on_progress'.completed = on_progress.completed + Cardinality(EndedInStep)
            /\ \A t \in EndedInStep :
                  /\ result[t] = NoResult
                  /\ result'[t] # NoResult
                  /\ pc[t] = "new" =>
                        /\ in_progress + 1 <= concurrency
                        /\ completed + in_progress + 1 <= NTasks]_vars
    /\ [](phase \in {"saved", "returned"} => on_progress = ProgressArgs(NTasks, 0))

C39_Witness ==
    /\ phase = "returned"
    /\ concurrency = 2
    /\ on_progress = ProgressArgs(NTasks, 0)
    /\ \E a, b \in Acc : Status(a) = "skipped" /\ Status(b) = "error"

\* C40: the entity filter is never dropped without notice. Whenever a
\* non-empty cik or ticker argument is given, the entity ID of every
\* returned result, padded to ten digits, is one of the designated IDs; a
\* ticker that maps to no entity gives an empty result list.
C40_EntityFilterKept ==
    (ix_pc = "returned" /\ (flt.cik # <<>> \/ flt.ticker # <<>>)) =>
        \A k \in DOMAIN result_list :
            ZFill(result_list[k].cik, cik_width)
                \in ({NormalizeCik(flt.cik[i]) : i \in DOMAIN flt.cik}
                        \cup UNION {TickerToCik(Upper(Strip(flt.ticker[i]))) :
                                       i \in DOMAIN flt.ticker})

====
